---- MODULE Spec2Model ----
(***************************************************************************)
(* bench_matrix: the cell/value model (params.rs), the lazy Cartesian      *)
(* product generator (generator.rs) and the operations applied to them.    *)
(*                                                                         *)
(* Text is modelled as a sequence of one-character strings, so that        *)
(* formatting, sanitising and joining are computed character by character. *)
(***************************************************************************)
EXTENDS Integers, Sequences, FiniteSets, TLC

VARIABLES
  pc,            \* which operation sequence is under way and where it stands: "start",
                 \* "iterating", "params", "unbuilt", or a position inside run() (see
                 \* InitRun)
  axes,          \* the caller's axis list handed to generate_combinations
  iter,          \* the CombinationIterator
  len0,          \* what len() returned right after generate_combinations
  yielded,       \* the combinations next() returned before its first None
  late,          \* the combinations next() returned after a None
  nones,         \* how many times next() has returned None
  lenReads,      \* what len() returned after each next() call, in call order
  combo0,        \* the AbstractCombination as handed to the accessor calls
  combo,         \* the AbstractCombination after the calls
  call,          \* the last params.rs call, or the last constructor or builder call:
                 \* [op, index]
  result,        \* what that call returned
  names,         \* the axis names handed to the last of these calls (<<>> if it takes none)
  warned,        \* whether the last params.rs call wrote a warning to stderr
  suite,         \* the fields of the Sync/AsyncBenchmarkSuite that run() consumes
  total_variants,                 \* run(): abstract_combinations.len() read before the loop
  variants_run_count,             \* run(): its three counters
  variants_skipped_extraction,
  variants_skipped_global_setup,
  abstract_combo,  \* run(): the combination of the current loop iteration (an Option)
  concrete_config, \* run(): what the extractor returned for it (an Option)
  group,         \* the harness: the benchmark group, its settings and its registered cases
  sample,        \* the iter_custom closure: hint, iterations done, summed duration, (ctx, state)
  calls,         \* how often each callback was invoked for the current combination
  lastCall,      \* the callback invoked last and whether it succeeded: [fn, ok]
  outcomes,      \* per combination processed so far: what its extractor and global setup
                 \* answered and the terminal point it reached
  emitted,       \* the lines written to stderr/stdout by the last step of run()
  global_hooks,  \* the global setup and teardown invocations of the run so far, in
                 \* order: which hook and the configuration it was handed
  pending        \* the per-sample calls that were started and have not completed (the
                 \* futures the async closure awaits), each with the (ctx, state) pair
                 \* that was moved into it

genVars == <<axes, iter, len0, yielded, late, nones, lenReads>>
paramVars == <<combo0, combo, call, result, names, warned>>
counterVars ==
  <<total_variants, variants_run_count, variants_skipped_extraction,
    variants_skipped_global_setup>>
runVars ==
  <<suite, counterVars, abstract_combo, concrete_config, group, sample, calls, lastCall,
    outcomes, emitted, global_hooks, pending>>
vars == <<pc, genVars, paramVars, runVars>>

(***************************************************************************)
(* Bounds of the explored inputs.                                          *)
(***************************************************************************)
MaxAxes == 3
MaxAxisLen == 3
MaxNones == 2
MaxCells == 3

(***************************************************************************)
(* Option and Result values.                                               *)
(***************************************************************************)
Some(v) == [some |-> TRUE, val |-> v]
None == [some |-> FALSE]
Ok(v) == [ok |-> TRUE, value |-> v]
Err(e) == [ok |-> FALSE, err |-> e]

(***************************************************************************)
(* Characters and literal texts.                                           *)
(***************************************************************************)
DigitChars == <<"0", "1", "2", "3", "4", "5", "6", "7", "8", "9">>
UpperChars == <<"A", "B", "C", "D", "E", "F", "G", "H", "I", "J", "K", "L", "M",
                "N", "O", "P", "Q", "R", "S", "T", "U", "V", "W", "X", "Y", "Z">>
LowerChars == <<"a", "b", "c", "d", "e", "f", "g", "h", "i", "j", "k", "l", "m",
                "n", "o", "p", "q", "r", "s", "t", "u", "v", "w", "x", "y", "z">>
Range(s) == {s[i] : i \in 1..Len(s)}

\* characters outside ASCII that Unicode classes as Alphabetic or Numeric: letters of
\* the Latin, Greek, Hebrew, Han and Katakana scripts, the ordinal indicators and the
\* micro sign, superscript digits and fractions (the digits of other scripts are
\* Numeric as well; they cannot be written in a TLA+ string)
OtherAlphanumericChars ==
  <<"é", "ß", "日", "²", "½", "ñ", "ü", "ç", "ª", "º", "µ", "À", "Ø", "ø", "ÿ", "Þ",
    "α", "Ω", "א", "語", "カ", "¹", "³", "¼", "¾">>

\* characters that Unicode classes as neither: the space, the punctuation and the
\* symbols of ASCII, and the no-break space, punctuation and symbols outside it
NonAlphanumericChars ==
  <<" ", "!", "\"", "#", "$", "%", "&", "'", "(", ")", "*", "+", ",", "-", ".", "/", ":",
    ";", "<", "=", ">", "?", "@", "[", "\\", "]", "^", "_", "{", "|", "}", "~",
    " ", "€", "«", "»", "°", "¿", "×", "÷", "§", "¬", "±">>

\* char::is_alphanumeric: Alphabetic or Numeric in Unicode, not only ASCII.  The
\* characters of Unicode cannot be enumerated here: the operator is defined on the
\* characters listed above and has no value on any other
IsAlphanumeric(c) ==
  CASE c \in (Range(DigitChars) \cup Range(UpperChars) \cup Range(LowerChars)
              \cup Range(OtherAlphanumericChars)) -> TRUE
    [] c \in Range(NonAlphanumericChars) -> FALSE

ExpectedLit == <<"E", "x", "p", "e", "c", "t", "e", "d", " ">>
AtIndexLit == <<" ", "a", "t", " ", "i", "n", "d", "e", "x", " ">>
FoundLit == <<",", " ", "f", "o", "u", "n", "d", " ">>
NoCellLit == <<"N", "o", " ", "c", "e", "l", "l", " ", "a", "t", " ", "i", "n", "d", "e", "x", " ">>
TagName == <<"T", "a", "g">>
StringName == <<"S", "t", "r", "i", "n", "g">>
IntName == <<"I", "n", "t">>
UnsignedName == <<"U", "n", "s", "i", "g", "n", "e", "d">>
BoolName == <<"B", "o", "o", "l">>
UintLit == <<"U", "i", "n", "t">>
TrueLit == <<"t", "r", "u", "e">>
FalseLit == <<"f", "a", "l", "s", "e">>

(***************************************************************************)
(* Formatting of primitives ({} of u64, i64, bool).                        *)
(***************************************************************************)
RECURSIVE FmtUnsigned(_)
FmtUnsigned(n) ==
  IF n < 10 THEN <<DigitChars[n + 1]>>
  ELSE FmtUnsigned(n \div 10) \o <<DigitChars[(n % 10) + 1]>>

FmtInt(i) == IF i < 0 THEN <<"-">> \o FmtUnsigned(-i) ELSE FmtUnsigned(i)

FmtBool(b) == IF b THEN TrueLit ELSE FalseLit

(***************************************************************************)
(* MatrixCellValue: a closed sum of five variants, one payload each.       *)
(***************************************************************************)
CellTag(s) == [variant |-> "Tag", payload |-> s]
CellString(s) == [variant |-> "String", payload |-> s]
CellInt(i) == [variant |-> "Int", payload |-> i]
CellUnsigned(u) == [variant |-> "Unsigned", payload |-> u]
CellBool(b) == [variant |-> "Bool", payload |-> b]

\* impl fmt::Debug for MatrixCellValue
DebugFmt(cell) ==
  CASE cell.variant = "Tag" -> TagName \o <<"(">> \o cell.payload \o <<")">>
    [] cell.variant = "String" -> StringName \o <<"(", "\"">> \o cell.payload \o <<"\"", ")">>
    [] cell.variant = "Int" -> IntName \o <<"(">> \o FmtInt(cell.payload) \o <<")">>
    [] cell.variant = "Unsigned" -> UnsignedName \o <<"(">> \o FmtUnsigned(cell.payload) \o <<")">>
    [] cell.variant = "Bool" -> BoolName \o <<"(">> \o FmtBool(cell.payload) \o <<")">>

\* AbstractCombination { cells }
AbstractCombination(cells) == [cells |-> cells]

\* str::replace(|c| !c.is_alphanumeric(), "_")
Sanitize(s) == [i \in 1..Len(s) |-> IF IsAlphanumeric(s[i]) THEN s[i] ELSE "_"]

\* (variant of Fragment: numbers and booleans without their type prefix)
FragmentUntagged(cell) ==
  CASE cell.variant = "Tag" -> cell.payload
    [] cell.variant = "String" -> Sanitize(cell.payload)
    [] cell.variant = "Int" -> FmtInt(cell.payload)
    [] cell.variant = "Unsigned" -> FmtUnsigned(cell.payload)
    [] cell.variant = "Bool" -> FmtBool(cell.payload)

\* the closure of id_suffix: one cell's fragment
Fragment(cell) ==
  CASE cell.variant = "Tag" -> cell.payload
    [] cell.variant = "String" -> Sanitize(cell.payload)
    [] cell.variant = "Int" -> IntName \o FmtInt(cell.payload)
    [] cell.variant = "Unsigned" -> UintLit \o FmtUnsigned(cell.payload)
    [] cell.variant = "Bool" -> BoolName \o FmtBool(cell.payload)

\* [String]::join(sep)
RECURSIVE Join(_, _)
Join(parts, sep) ==
  IF parts = <<>> THEN <<>>
  ELSE IF Len(parts) = 1 THEN parts[1]
  ELSE parts[1] \o sep \o Join(Tail(parts), sep)

\* AbstractCombination::id_suffix
id_suffix(c) ==
  LET parts == [i \in 1..Len(c.cells) |-> Fragment(c.cells[i])]
  IN <<"_">> \o Join(parts, <<"_">>)

\* (variant of NamedFragment: numbers and booleans keep the type prefix of id_suffix)
NamedFragmentPrefixed(cell) ==
  CASE cell.variant = "Tag" -> cell.payload
    [] cell.variant = "String" -> Sanitize(cell.payload)
    [] cell.variant = "Int" -> IntName \o FmtInt(cell.payload)
    [] cell.variant = "Unsigned" -> UintLit \o FmtUnsigned(cell.payload)
    [] cell.variant = "Bool" -> BoolName \o FmtBool(cell.payload)

\* (variant of NamedFragment: the text of a String cell is not sanitised)
NamedFragmentRaw(cell) ==
  CASE cell.variant \in {"Tag", "String"} -> cell.payload
    [] cell.variant = "Int" -> FmtInt(cell.payload)
    [] cell.variant = "Unsigned" -> FmtUnsigned(cell.payload)
    [] cell.variant = "Bool" -> FmtBool(cell.payload)

\* the value of one cell as the named suffix spells it: no type prefix
NamedFragment(cell) ==
  CASE cell.variant = "Tag" -> cell.payload
    [] cell.variant = "String" -> Sanitize(cell.payload)
    [] cell.variant = "Int" -> FmtInt(cell.payload)
    [] cell.variant = "Unsigned" -> FmtUnsigned(cell.payload)
    [] cell.variant = "Bool" -> FmtBool(cell.payload)

\* AbstractCombination::id_suffix_with_names: the warning written when the number of
\* names is not the number of cells
NamesMismatch(c, ns) == Len(ns) # Len(c.cells)

\* the texts of a list, one after the other
RECURSIVE ConcatAll(_)
ConcatAll(parts) == IF parts = <<>> THEN <<>> ELSE parts[1] \o ConcatAll(Tail(parts))

\* (variant of id_suffix_with_names: names and cells are paired up to the shorter list)
id_suffix_with_names_zip(c, ns) ==
  LET n == IF Len(ns) < Len(c.cells) THEN Len(ns) ELSE Len(c.cells)
  IN ConcatAll([i \in 1..n |-> <<"_">> \o ns[i] \o <<"-">> \o NamedFragment(c.cells[i])])

\* AbstractCombination::id_suffix_with_names: the text returned
id_suffix_with_names(c, ns) ==
  IF NamesMismatch(c, ns) THEN id_suffix(c)
  ELSE ConcatAll([i \in 1..Len(c.cells) |->
                    <<"_">> \o ns[i] \o <<"-">> \o NamedFragment(c.cells[i])])

\* (variant of MismatchMsg: the cell found is left out)
MismatchMsgNoFound(name, index, other) ==
  ExpectedLit \o name \o AtIndexLit \o FmtUnsigned(index)

\* the two error texts of the accessors
MismatchMsg(name, index, other) ==
  ExpectedLit \o name \o AtIndexLit \o FmtUnsigned(index) \o FoundLit \o DebugFmt(other)
NoCellMsg(index) == NoCellLit \o FmtUnsigned(index)

\* the body shared by the five accessors: self.cells.get(index) matched on the variant
GetCell(c, index, variant, name) ==
  IF index < Len(c.cells)
  THEN LET cell == c.cells[index + 1]
       IN IF cell.variant = variant THEN Ok(cell.payload)
          ELSE Err(MismatchMsg(name, index, cell))
  ELSE Err(NoCellMsg(index))

get_tag(c, index) == GetCell(c, index, "Tag", TagName)
get_string(c, index) == GetCell(c, index, "String", StringName)
\* (variant of get_i64: an Unsigned cell is accepted as well)
get_i64_coercing(c, index) ==
  IF index < Len(c.cells) /\ c.cells[index + 1].variant = "Unsigned"
  THEN Ok(c.cells[index + 1].payload)
  ELSE GetCell(c, index, "Int", IntName)
get_i64(c, index) == GetCell(c, index, "Int", IntName)
get_u64(c, index) == GetCell(c, index, "Unsigned", UnsignedName)
get_bool(c, index) == GetCell(c, index, "Bool", BoolName)

(***************************************************************************)
(* itertools::MultiProduct, the iterator multi_cartesian_product() returns, *)
(* as of the itertools release the crate builds with (0.14): the product   *)
(* of no iterators yields one empty row, and the iterator is fused (once   *)
(* it has returned None it returns None for ever).                         *)
(*                                                                         *)
(* MultiProductIter: orig is the axis (iter_orig), pos the number of items  *)
(* already taken from iter, cur the index in orig of the current value      *)
(* (0: none).                                                               *)
(***************************************************************************)
MultiProductIter(axis) == [orig |-> axis, pos |-> 0, cur |-> 0]
InProgress(mi) == mi.cur # 0
Iterate(mi) ==
  IF mi.pos < Len(mi.orig)
  THEN [mi EXCEPT !.cur = mi.pos + 1, !.pos = mi.pos + 1]
  ELSE [mi EXCEPT !.cur = 0]
Reset(mi) == [mi EXCEPT !.pos = 0]

\* (variant of CurrIterator: the row is built from the last axis to the first)
CurrIteratorReversed(its) ==
  [i \in 1..Len(its) |-> its[Len(its) + 1 - i].orig[its[Len(its) + 1 - i].cur]]

\* curr_iterator(): the current value of every axis, in axis order
CurrIterator(its) == [i \in 1..Len(its) |-> its[i].orig[its[i].cur]]

\* Itertools::multi_cartesian_product
MultiCartesianProduct(axs) ==
  [live |-> TRUE,
   started |-> FALSE,
   iters |-> [i \in 1..Len(axs) |-> MultiProductIter(axs[i])]]

\* MultiProduct::next, Some(values) branch: find from the right
\* an unfinished iterator, resetting the finished ones met on the way
RECURSIVE AdvanceFromRight(_, _)
AdvanceFromRight(its, i) ==
  IF i = 0 THEN [ok |-> FALSE, its |-> its]
  ELSE IF its[i].pos < Len(its[i].orig)
       THEN [ok |-> TRUE, its |-> [its EXCEPT ![i] = Iterate(its[i])]]
       ELSE AdvanceFromRight([its EXCEPT ![i] = Iterate(Reset(its[i]))], i - 1)

\* MultiProduct::next, first call: one item of every iterator,
\* collected into an Option (stops at the first iterator that has none)
FirstRow(its) ==
  [i \in 1..Len(its) |->
     IF \A j \in 1..(i - 1) : Len(its[j].orig) > 0 THEN Iterate(its[i]) ELSE its[i]]

\* MultiProduct::next: [inner |-> the iterator after the call, item |-> Option<Vec>]
MultiProductNext(mp) ==
  IF ~mp.live THEN [inner |-> mp, item |-> None]
  ELSE IF mp.started
  THEN LET r == AdvanceFromRight(mp.iters, Len(mp.iters))
       IN IF r.ok
          THEN [inner |-> [mp EXCEPT !.iters = r.its], item |-> Some(CurrIterator(r.its))]
          ELSE [inner |-> [mp EXCEPT !.iters = r.its, !.live = FALSE], item |-> None]
  ELSE LET its1 == FirstRow(mp.iters)
           allSome == \A i \in 1..Len(its1) : InProgress(its1[i])
       IN IF ~allSome \/ Len(its1) = 0
          THEN [inner |-> [mp EXCEPT !.iters = its1, !.live = FALSE],
                item |-> IF allSome THEN Some(CurrIterator(its1)) ELSE None]
          ELSE [inner |-> [mp EXCEPT !.iters = its1, !.started = TRUE],
                item |-> Some(CurrIterator(its1))]

(***************************************************************************)
(* generator.rs                                                            *)
(***************************************************************************)
\* (variant of ProductOfLens: the lengths are added)
RECURSIVE SumOfLens(_)
SumOfLens(axs) ==
  IF axs = <<>> THEN 0 ELSE Len(axs[1]) + SumOfLens(Tail(axs))

\* Iterator::product over the axis lengths (the empty product is 1)
RECURSIVE ProductOfLens(_)
ProductOfLens(axs) ==
  IF axs = <<>> THEN 1 ELSE Len(axs[1]) * ProductOfLens(Tail(axs))

\* (variant of generate_combinations: empty axes are left out of the product)
GenerateCombinationsSkipEmpty(axs) ==
  [inner_iterator |-> MultiCartesianProduct(axs),
   len |-> ProductOfLens(SelectSeq(axs, LAMBDA a : a # <<>>))]

\* generate_combinations
GenerateCombinations(axs) ==
  LET len == IF \E i \in 1..Len(axs) : Len(axs[i]) = 0
             THEN 0
             ELSE ProductOfLens(axs)
  IN [inner_iterator |-> MultiCartesianProduct(axs), len |-> len]

\* (variant of CombinationIterator::next: len counts down with every item)
CombinationIteratorNextCounting(it) ==
  LET r == MultiProductNext(it.inner_iterator)
  IN [iter |-> [it EXCEPT !.inner_iterator = r.inner,
                          !.len = IF r.item.some /\ it.len > 0 THEN it.len - 1 ELSE it.len],
      item |-> IF r.item.some THEN Some(AbstractCombination(r.item.val)) ELSE None]

\* CombinationIterator::next: [iter |-> the iterator after the call, item |-> Option]
CombinationIteratorNext(it) ==
  LET r == MultiProductNext(it.inner_iterator)
  IN [iter |-> [it EXCEPT !.inner_iterator = r.inner],
      item |-> IF r.item.some THEN Some(AbstractCombination(r.item.val)) ELSE None]

\* CombinationIterator::size_hint
SizeHint(it) == <<it.len, Some(it.len)>>

\* ExactSizeIterator::len
IterLen(it) == it.len

(***************************************************************************)
(* Inputs.                                                                 *)
(***************************************************************************)
\* the j-th value of the axis at position i: Tags, Ints and Unsigneds by position
GenCell(i, j) ==
  CASE i % 3 = 1 -> CellTag(<<UpperChars[j]>>)
    [] i % 3 = 2 -> CellInt(j)
    [] OTHER -> CellUnsigned(100 * j)
AxisOfLen(i, n) == [j \in 1..n |-> GenCell(i, j)]

\* every list of at most MaxAxes axes of at most MaxAxisLen values each
AxesInputs ==
  UNION {{[i \in 1..k |-> AxisOfLen(i, lens[i])] : lens \in [1..k -> 0..MaxAxisLen]} :
         k \in 0..MaxAxes}

ParamCells ==
  {CellTag(<<"S", "t", "d", "T", "o", "k", "i", "o">>),
   CellTag(<<"U", "r", "i", "n", "g">>),
   CellTag(<<"H", "W", "M", "-", "L", "o", "w">>),
   CellString(<<"M", "é", " ", "P", ".", "9">>),
   CellInt(1024), CellInt(-7),
   CellUnsigned(4096), CellUnsigned(512),
   CellBool(TRUE), CellBool(FALSE)}

\* every combination of at most MaxCells cells
ComboInputs ==
  UNION {{AbstractCombination(cs) : cs \in [1..k -> ParamCells]} : k \in 0..MaxCells}

\* the indexes the accessors are called with: inside, at and past the end
Indexes == 0..(MaxCells + 1)

NoCall == [op |-> "none", index |-> 0]

\* axis names by position
AxisNames ==
  <<<<"B", "a", "c", "k", "e", "n", "d">>,
    <<"B", "l", "o", "c", "k", "S", "i", "z", "e">>,
    <<"M", "o", "d", "e">>>>
NameAt(i) == IF i <= Len(AxisNames) THEN AxisNames[i] ELSE <<"N">> \o FmtUnsigned(i)

\* the name lists id_suffix_with_names is called with: fewer names than cells, as
\* many, and more
NamesInputs == {[i \in 1..n |-> NameAt(i)] : n \in 0..(MaxCells + 1)}

\* no suite: the values of the variables of run() while no suite is run
NoSuite == [variant |-> "none"]
NoGroup ==
  [created |-> FALSE, name |-> <<>>, settings |-> "none", throughput |-> None,
   cases |-> <<>>, finished |-> FALSE]
NoSample ==
  [active |-> FALSE, hint |-> 0, iters |-> 0, total |-> 0, pair |-> None, measured |-> <<>>,
   reported |-> None, received |-> <<>>, torn |-> None]
\* logic counts the invocations of the current sample; the others those of the
\* current combination
NoneCalled == [fn |-> "none", ok |-> TRUE]
NoCalls ==
  [extractor |-> 0, global_setup |-> 0, sample_setup |-> 0, logic |-> 0,
   sample_teardown |-> 0, global_teardown |-> 0, throughput |-> 0]
NoRun ==
  /\ suite = NoSuite
  /\ total_variants = 0
  /\ variants_run_count = 0
  /\ variants_skipped_extraction = 0
  /\ variants_skipped_global_setup = 0
  /\ abstract_combo = None
  /\ concrete_config = None
  /\ group = NoGroup
  /\ sample = NoSample
  /\ calls = NoCalls
  /\ lastCall = NoneCalled
  /\ outcomes = <<>>
  /\ emitted = <<>>
  /\ global_hooks = <<>>
  /\ pending = <<>>

(***************************************************************************)
(* The generator: generate_combinations, then next() until it has returned *)
(* None MaxNones times.                                                    *)
(***************************************************************************)
InitGen ==
  /\ pc = "start"
  /\ axes \in AxesInputs
  /\ iter = [inner_iterator |-> <<>>, len |-> 0]
  /\ len0 = 0
  /\ yielded = <<>>
  /\ late = <<>>
  /\ nones = 0
  /\ lenReads = <<>>
  /\ combo0 = AbstractCombination(<<>>)
  /\ combo = combo0
  /\ call = NoCall
  /\ result = None
  /\ names = <<>>
  /\ warned = FALSE
  /\ NoRun

\* let it = generate_combinations(&axes); it.len()
GenerateCall ==
  /\ pc = "start"
  /\ iter' = GenerateCombinations(axes)
  /\ len0' = IterLen(iter')
  /\ pc' = "iterating"
  /\ UNCHANGED <<axes, yielded, late, nones, lenReads, paramVars, runVars>>

\* it.next(); it.len()
NextCall ==
  /\ pc = "iterating"
  /\ nones < MaxNones
  /\ LET r == CombinationIteratorNext(iter)
     IN /\ iter' = r.iter
        /\ lenReads' = Append(lenReads, IterLen(r.iter))
        /\ IF r.item.some
           THEN /\ nones' = nones
                /\ IF nones = 0
                   THEN yielded' = Append(yielded, r.item.val) /\ late' = late
                   ELSE late' = Append(late, r.item.val) /\ yielded' = yielded
           ELSE /\ nones' = nones + 1
                /\ UNCHANGED <<yielded, late>>
  /\ UNCHANGED <<pc, axes, len0, paramVars, runVars>>

NextGen == GenerateCall \/ NextCall
SpecGen == InitGen /\ [][NextGen]_vars

(***************************************************************************)
(* The typed accessors and id_suffix, applied to one combination.          *)
(***************************************************************************)
InitParams ==
  /\ pc = "params"
  /\ combo0 \in ComboInputs
  /\ combo = combo0
  /\ call = NoCall
  /\ result = None
  /\ names = <<>>
  /\ warned = FALSE
  /\ NoRun
  /\ axes = <<>>
  /\ iter = [inner_iterator |-> <<>>, len |-> 0]
  /\ len0 = 0
  /\ yielded = <<>>
  /\ late = <<>>
  /\ nones = 0
  /\ lenReads = <<>>

GetTagCall ==
  /\ pc = "params"
  /\ \E i \in Indexes : call' = [op |-> "get_tag", index |-> i] /\ result' = get_tag(combo, i)
  /\ names' = <<>>
  /\ warned' = FALSE
  /\ UNCHANGED <<pc, genVars, combo0, combo, runVars>>

GetStringCall ==
  /\ pc = "params"
  /\ \E i \in Indexes :
       call' = [op |-> "get_string", index |-> i] /\ result' = get_string(combo, i)
  /\ names' = <<>>
  /\ warned' = FALSE
  /\ UNCHANGED <<pc, genVars, combo0, combo, runVars>>

GetI64Call ==
  /\ pc = "params"
  /\ \E i \in Indexes : call' = [op |-> "get_i64", index |-> i] /\ result' = get_i64(combo, i)
  /\ names' = <<>>
  /\ warned' = FALSE
  /\ UNCHANGED <<pc, genVars, combo0, combo, runVars>>

GetU64Call ==
  /\ pc = "params"
  /\ \E i \in Indexes : call' = [op |-> "get_u64", index |-> i] /\ result' = get_u64(combo, i)
  /\ names' = <<>>
  /\ warned' = FALSE
  /\ UNCHANGED <<pc, genVars, combo0, combo, runVars>>

GetBoolCall ==
  /\ pc = "params"
  /\ \E i \in Indexes : call' = [op |-> "get_bool", index |-> i] /\ result' = get_bool(combo, i)
  /\ names' = <<>>
  /\ warned' = FALSE
  /\ UNCHANGED <<pc, genVars, combo0, combo, runVars>>

IdSuffixCall ==
  /\ pc = "params"
  /\ call' = [op |-> "id_suffix", index |-> 0]
  /\ result' = id_suffix(combo)
  /\ names' = <<>>
  /\ warned' = FALSE
  /\ UNCHANGED <<pc, genVars, combo0, combo, runVars>>

IdSuffixWithNamesCall ==
  /\ pc = "params"
  /\ \E ns \in NamesInputs :
       /\ call' = [op |-> "id_suffix_with_names", index |-> 0]
       /\ names' = ns
       /\ result' = id_suffix_with_names(combo, ns)
       /\ warned' = NamesMismatch(combo, ns)
  /\ UNCHANGED <<pc, genVars, combo0, combo, runVars>>

NextParams ==
  \/ GetTagCall \/ GetStringCall \/ GetI64Call \/ GetU64Call \/ GetBoolCall
  \/ IdSuffixCall \/ IdSuffixWithNamesCall
SpecParams == InitParams /\ [][NextParams]_vars

(***************************************************************************)
(* The suite runner: SyncBenchmarkSuite::run and AsyncBenchmarkSuite::run. *)
(* The two bodies differ in the tag of their lines and in awaiting the     *)
(* per-sample callbacks; suite.variant tells them apart.                   *)
(*                                                                         *)
(* pc is the position inside run(): "built" (suite built, run() not yet    *)
(* called), "loop" (head of the for loop), "global_setup", "compensation"  *)
(* (global teardown after a failed global setup), "sampling" (inside       *)
(* bench_with_input, between two samples), "logic", "sample_teardown",     *)
(* "global_teardown", "finish" (after the loop), "returned", "aborted".    *)
(***************************************************************************)
MaxRunAxes == 2
MaxRunAxisLen == 2
MaxRunCombos == 4
MaxSamples == 2
MaxHint == 2
MaxFairCombos == 2

SuiteName == <<"S", "u", "i", "t", "e">>

\* the axis lists run() is called with: those generating at most MaxRunCombos rows
\* axis lists whose values are pairwise different and look alike once spelled: a Tag
\* with the text of an Int fragment next to that Int, and two Strings that differ in
\* one non-alphanumeric character
LookalikeAxes ==
  {<<<<CellTag(<<"I", "n", "t", "1">>), CellInt(1)>>>>,
   <<<<CellString(<<"a", "-", "b">>), CellString(<<"a", ".", "b">>)>>>>}

RunAxesInputs ==
  {a \in UNION {{[i \in 1..k |-> AxisOfLen(i, lens[i])] : lens \in [1..k -> 0..MaxRunAxisLen]} :
                k \in 0..MaxRunAxes} : ProductOfLens(a) <= MaxRunCombos}
  \cup LookalikeAxes

\* the names a suite may hold for axs: none, one per axis, or (handed to new(), which
\* stores what it is given) one more than there are axes
ParameterNamesInputs(axs) ==
  {None, Some([i \in 1..Len(axs) |-> NameAt(i)]), Some([i \in 1..(Len(axs) + 1) |-> NameAt(i)])}

\* the extractors a suite may be built with: one that reads every cell of the
\* combination and, for suites holding no names, one that reads only the first cell
\* (so that combinations differing in a later axis give equal configurations)
ExtractorInputs(ns) == IF ns.some THEN {"all_cells"} ELSE {"all_cells", "first_cell"}

\* the suites run() is called on: either variant, with and without each global hook;
\* throughput calculator and group configurator are present when names are
SuitesHolding(ns) ==
  {[variant |-> v,
    suite_base_name |-> SuiteName,
    parameter_names |-> ns,
    extractor_fn |-> x,
    global_setup_fn |-> gs,
    global_teardown_fn |-> gt,
    criterion_group_configurator |-> ns.some,
    throughput_calculator |-> ns.some] :
   v \in {"sync", "async"}, gs \in BOOLEAN, gt \in BOOLEAN, x \in ExtractorInputs(ns)}
SuiteInputs(axs) == UNION {SuitesHolding(ns) : ns \in ParameterNamesInputs(axs)}

\* what the caller's callbacks and the harness may answer
ExtractedConfig(s, c) ==
  [extracted_from |-> IF s.extractor_fn = "first_cell" /\ c.cells # <<>>
                      THEN <<c.cells[1]>> ELSE c.cells]
ExtractorResults(s, c) == {Ok(ExtractedConfig(s, c)), Err("extraction error")}
HookCall(fn, cfg) == [fn |-> fn, config |-> cfg]
HookResults == {Ok(<<>>), Err("hook error")}
SetupResults == {Ok(<<>>), Err("setup error")}
Durations == {1, 2}
Hints == 0..MaxHint
ThroughputOf(cfg) == [computed_from |-> cfg]

\* one line of diagnostic output
Line(s, stream, level, what, combo_, cfg, cause, counts) ==
  [stream |-> stream, variant |-> s.variant, level |-> level, what |-> what,
   suite |-> Some(s.suite_base_name),
   id |-> IF combo_.some THEN Some(id_suffix(combo_.val)) ELSE None,
   config |-> cfg, cause |-> cause, counts |-> counts]

\* criterion.benchmark_group(name), then the configurator or the default settings
BenchmarkGroup(s) ==
  [created |-> TRUE,
   name |-> s.suite_base_name,
   settings |-> IF s.criterion_group_configurator THEN "configurator" ELSE "default",
   throughput |-> None,
   cases |-> <<>>,
   finished |-> FALSE]

\* str::strip_prefix('_').unwrap_or("")
StripPrefixUnderscore(t) == IF Len(t) >= 1 /\ t[1] = "_" THEN Tail(t) ELSE <<>>

\* (variant of ParameterString: the names the suite holds are always used, cut or
\* padded to the combination)
ParameterStringNamedAlways(s, c) ==
  IF s.parameter_names.some
  THEN StripPrefixUnderscore(
         id_suffix_with_names(c, [i \in 1..Len(c.cells) |-> NameAt(i)]))
  ELSE StripPrefixUnderscore(id_suffix(c))

\* parameter_string of run()
\* the panic message of a failed sample setup: the variant's tag, the configuration
\* and the error; it names neither the suite nor the combination
PanicLine(s, cfg, cause) ==
  [Line(s, "stderr", "PANIC", "sample_setup_failed", None, cfg, cause, <<>>)
     EXCEPT !.suite = None]

ParameterString(s, c) ==
  IF s.parameter_names.some
  THEN StripPrefixUnderscore(id_suffix_with_names(c, s.parameter_names.val))
  ELSE StripPrefixUnderscore(id_suffix(c))

\* group.bench_with_input(BenchmarkId::from_parameter(id), &cfg, ..): the case is
\* registered and measured under the group's settings of that moment
BenchWithInput(g, id, cfg) ==
  [g EXCEPT !.cases = Append(@, [id |-> id, input |-> cfg, throughput |-> g.throughput])]

\* (variant of Incremented: the counter is left as it was)
NotIncremented(x) == x

\* (variant of Incremented: the combination is counted twice)
IncrementedTwice(x) == x + 2

\* x += 1
Incremented(x) == x + 1

\* the variables run() does not touch
idleVars == <<len0, yielded, late, nones, lenReads, paramVars>>

InitRun ==
  /\ pc = "built"
  /\ axes \in RunAxesInputs
  /\ suite \in SuiteInputs(axes)
  /\ iter = [inner_iterator |-> <<>>, len |-> 0]
  /\ len0 = 0
  /\ yielded = <<>>
  /\ late = <<>>
  /\ nones = 0
  /\ lenReads = <<>>
  /\ combo0 = AbstractCombination(<<>>)
  /\ combo = combo0
  /\ call = NoCall
  /\ result = None
  /\ names = <<>>
  /\ warned = FALSE
  /\ total_variants = 0
  /\ variants_run_count = 0
  /\ variants_skipped_extraction = 0
  /\ variants_skipped_global_setup = 0
  /\ abstract_combo = None
  /\ concrete_config = None
  /\ group = NoGroup
  /\ sample = NoSample
  /\ calls = NoCalls
  /\ lastCall = NoneCalled
  /\ outcomes = <<>>
  /\ emitted = <<>>
  /\ global_hooks = <<>>
  /\ pending = <<>>

\* run(), up to the head of the loop: generate_combinations, the early return, the
\* counters, the benchmark group and its settings
RunCall ==
  /\ pc = "built"
  /\ LET abstract_combinations == GenerateCombinations(axes)
     IN /\ iter' = abstract_combinations
        /\ IF IterLen(abstract_combinations) = 0
           THEN /\ emitted' =
                     <<Line(suite, "stderr", "", "nothing_to_run", None, None,
                            IF axes = <<>> THEN "no parameter axes defined"
                            ELSE "no combinations generated (e.g., an axis was empty)",
                            <<>>)>>
                /\ pc' = "returned"
                /\ UNCHANGED <<counterVars, group>>
           ELSE /\ total_variants' = IterLen(abstract_combinations)
                /\ variants_run_count' = 0
                /\ variants_skipped_extraction' = 0
                /\ variants_skipped_global_setup' = 0
                /\ group' = BenchmarkGroup(suite)
                /\ emitted' = <<>>
                /\ pc' = "loop"
  /\ UNCHANGED <<axes, pending, global_hooks, idleVars, suite, abstract_combo, concrete_config,
                 sample, calls, lastCall, outcomes>>

\* where run() goes on after a successful extraction, a successful global setup, a
\* failed one, a skip (continue), the end of bench_with_input, a sample setup
\* (variant of AfterExtraction: a registered global setup is passed over)
AfterExtractionNoGlobalSetup(s) == "sampling"

\* (variant of AfterExtraction: the global setup is passed over for a configuration
\* equal to one it was already invoked with)
AfterExtractionOncePerConfiguration(s) ==
  IF s.global_setup_fn /\ HookCall("global_setup", concrete_config'.val) \notin Range(global_hooks)
  THEN "global_setup" ELSE "sampling"

AfterExtraction(s) == IF s.global_setup_fn THEN "global_setup" ELSE "sampling"
\* (variant of AfterSkip: a skip leaves the loop)
AfterSkipBreak == "finish"

AfterSkip == "loop"
\* (variant of AfterGlobalSetupErr: no compensating global teardown)
AfterGlobalSetupErrNoCompensation(s) == AfterSkip

AfterGlobalSetupErr(s) == IF s.global_teardown_fn THEN "compensation" ELSE AfterSkip
\* (variant of AfterBench: the loop goes on without the global teardown)
AfterBenchSkipsTeardown(s) == "loop"

\* (variant of AfterBench: the loop is left after the first case)
AfterBenchStops(s) == "finish"

AfterBench(s) == IF s.global_teardown_fn THEN "global_teardown" ELSE "loop"
\* (variant of AfterSampleSetupOk: with hint 0 the closure returns without teardown)
AfterSampleSetupOkNoTeardown(hint) == IF hint = 0 THEN "sampling" ELSE "logic"

AfterSampleSetupOk(hint) == IF hint = 0 THEN "sample_teardown" ELSE "logic"
\* (variant of AfterSampleSetupErr: the failed sample is dropped and sampling goes on)
AfterSampleSetupErrSkip == "sampling"

AfterSampleSetupErr == "aborted"
AfterLogic(iters, hint) == IF iters < hint THEN "logic" ELSE "sample_teardown"

\* one entry of outcomes
Outcome(extracted, global_setup, reached) ==
  [extracted |-> extracted, config |-> IF extracted THEN concrete_config ELSE None,
   global_setup |-> global_setup, reached |-> reached]

\* the label is computed and the case handed to the harness; id_suffix_with_names
\* writes its warning when the names do not fit the combination
Register(g, s, c, cfg) == BenchWithInput(g, ParameterString(s, c), cfg)
RegisterLines(s, c) ==
  IF s.parameter_names.some /\ NamesMismatch(c, s.parameter_names.val)
  THEN <<Line(s, "stderr", "WARN", "names_mismatch", Some(c), None, "name count", <<>>)>>
  ELSE <<>>

\* the loop takes the next combination and calls the extractor on it
ExtractorCall ==
  /\ pc = "loop"
  /\ LET r == CombinationIteratorNext(iter)
     IN /\ r.item.some
        /\ iter' = r.iter
        /\ abstract_combo' = r.item
        /\ calls' = [NoCalls EXCEPT !.extractor = 1]
        /\ sample' = NoSample
        /\ \E res \in ExtractorResults(suite, r.item.val) :
             /\ lastCall' = [fn |-> "extractor", ok |-> res.ok]
             /\ IF res.ok
                THEN LET next == AfterExtraction(suite)
                     IN /\ concrete_config' = Some(res.value)
                        /\ pc' = next
                        /\ group' = IF next = "sampling"
                                    THEN Register(group, suite, r.item.val, res.value)
                                    ELSE group
                        /\ emitted' = IF next = "sampling"
                                      THEN RegisterLines(suite, r.item.val) ELSE <<>>
                        /\ UNCHANGED <<counterVars, outcomes>>
                ELSE /\ concrete_config' = None
                     /\ emitted' = <<Line(suite, "stderr", "ERROR", "extraction_failed",
                                          r.item, None, res.err, <<>>)>>
                     /\ variants_skipped_extraction' =
                          Incremented(variants_skipped_extraction)
                     /\ outcomes' = Append(outcomes,
                                           Outcome(FALSE, "not_called", "skipped_extraction"))
                     /\ pc' = AfterSkip
                     /\ UNCHANGED <<total_variants, variants_run_count,
                                    variants_skipped_global_setup, group>>
  /\ UNCHANGED <<axes, pending, global_hooks, idleVars, suite>>

\* the iterator is exhausted: the loop is left
LoopExit ==
  /\ pc = "loop"
  /\ LET r == CombinationIteratorNext(iter)
     IN /\ ~r.item.some
        /\ iter' = r.iter
  /\ pc' = "finish"
  /\ emitted' = <<>>
  /\ UNCHANGED <<axes, pending, global_hooks, idleVars, suite, counterVars, abstract_combo,
                 concrete_config, group, sample, calls, lastCall, outcomes>>

\* global_setup(&concrete_config)
GlobalSetupCall ==
  /\ pc = "global_setup"
  /\ calls' = [calls EXCEPT !.global_setup = @ + 1]
  /\ \E res \in HookResults :
       /\ lastCall' = [fn |-> "global_setup", ok |-> res.ok]
       /\ global_hooks' = Append(global_hooks,
                                 HookCall("global_setup", concrete_config.val))
       /\ IF res.ok
          THEN /\ pc' = "sampling"
               /\ group' = Register(group, suite, abstract_combo.val, concrete_config.val)
               /\ emitted' = RegisterLines(suite, abstract_combo.val)
               /\ UNCHANGED <<counterVars, outcomes>>
          ELSE LET next == AfterGlobalSetupErr(suite)
               IN /\ emitted' = <<Line(suite, "stderr", "ERROR", "global_setup_failed",
                                       abstract_combo, concrete_config, res.err, <<>>)>>
                  /\ variants_skipped_global_setup' =
                       Incremented(variants_skipped_global_setup)
                  /\ pc' = next
                  /\ outcomes' =
                       IF next = "compensation" THEN outcomes
                       ELSE Append(outcomes, Outcome(TRUE, "failed", "skipped_global_setup"))
                  /\ UNCHANGED <<total_variants, variants_run_count,
                                 variants_skipped_extraction, group>>
  /\ UNCHANGED <<axes, pending, iter, idleVars, suite, abstract_combo,
                 concrete_config, sample>>

\* (variant of AfterCompensation: the combination goes on to the global teardown of
\* the normal path)
AfterCompensationTeardownAgain == "global_teardown"

\* where run() goes on after the compensating global teardown: continue
AfterCompensation == AfterSkip

\* global_teardown(&concrete_config) after a failed global setup
CompensatingTeardownCall ==
  /\ pc = "compensation"
  /\ calls' = [calls EXCEPT !.global_teardown = @ + 1]
  /\ \E res \in HookResults :
       /\ lastCall' = [fn |-> "global_teardown", ok |-> res.ok]
       /\ global_hooks' = Append(global_hooks,
                                 HookCall("global_teardown", concrete_config.val))
       /\ emitted' = IF res.ok THEN <<>>
                     ELSE <<Line(suite, "stderr", "WARN", "compensating_teardown_failed",
                                 abstract_combo, None, res.err, <<>>)>>
  /\ outcomes' = Append(outcomes, Outcome(TRUE, "failed", "skipped_global_setup"))
  /\ pc' = AfterCompensation
  /\ UNCHANGED <<axes, pending, iter, idleVars, suite, counterVars, abstract_combo,
                 concrete_config, group, sample>>

\* the harness asks for one more sample with its iteration hint: the iter_custom
\* closure starts and calls (awaits) the per-sample setup, which may fail (panic!)
SampleSetupCall ==
  /\ pc = "sampling"
  /\ calls.sample_setup < MaxSamples
  /\ calls' = [calls EXCEPT !.sample_setup = @ + 1, !.logic = 0]
  /\ \E iters_count_hint \in Hints, res \in SetupResults :
       /\ lastCall' = [fn |-> "sample_setup", ok |-> res.ok]
       /\ IF res.ok
          THEN /\ sample' = [active |-> TRUE, hint |-> iters_count_hint, iters |-> 0,
                             total |-> 0,
                             pair |-> Some([combination |-> Len(outcomes) + 1,
                                            sample |-> calls.sample_setup + 1,
                                            step |-> 0]),
                             measured |-> <<>>,
                             reported |-> None,
                             received |-> <<>>,
                             torn |-> None]
               /\ emitted' = <<>>
               /\ pc' = AfterSampleSetupOk(iters_count_hint)
          ELSE /\ sample' = [NoSample EXCEPT !.hint = iters_count_hint]
               /\ emitted' = <<PanicLine(suite, concrete_config, res.err)>>
               /\ pc' = AfterSampleSetupErr
  /\ pending' = <<>>
  /\ UNCHANGED <<axes, global_hooks, iter, idleVars, suite, counterVars, abstract_combo,
                 concrete_config, group, outcomes>>

\* the per-sample call run() makes next at a position inside the closure
AwaitedAt(p) ==
  CASE p = "sampling" -> "sample_setup"
    [] p = "logic" -> "logic"
    [] p = "sample_teardown" -> "sample_teardown"

\* (variant of MayStart: a call is started while another is pending)
MayStartWhilePending(p) == TRUE

\* the closure is one async block whose calls are awaited one after the other: the
\* next call is made only when none is pending
MayStart(p) == p = <<>>

\* Box::pin(f(..)).await in the async variant, when the future is not ready at once:
\* the call has been made, the (ctx, state) pair was moved into it, and block_on
\* waits; the call's own action below is its completion
AwaitSuspends ==
  /\ suite.variant = "async"
  /\ pc \in {"sampling", "logic", "sample_teardown"}
  /\ pc = "sampling" => calls.sample_setup < MaxSamples
  /\ MayStart(pending)
  /\ pending' = Append(pending, [fn |-> AwaitedAt(pc), pair |-> sample.pair])
  /\ sample' = [sample EXCEPT !.pair = None]
  /\ emitted' = <<>>
  /\ UNCHANGED <<pc, axes, global_hooks, iter, idleVars, suite, counterVars,
                 abstract_combo, concrete_config, group, calls, lastCall, outcomes>>

\* user_ctx, setup_data_instance: held by the closure, or by the pending call
HeldPair == IF pending # <<>> THEN pending[Len(pending)].pair ELSE sample.pair

\* what the logic returns for the pair it was handed
LogicReturns(p) == [p EXCEPT !.step = @ + 1]

\* (variant of CarryOver: the returned pair is dropped and the old one kept)
CarryOverStale(got, returned) == got

\* user_ctx = ctx_after_iter; setup_data_instance = s_after_iter
CarryOver(got, returned) == returned

\* (variant of SumDuration: the last duration replaces the sum)
SumDurationLast(total, measured_duration) == measured_duration

\* total_duration_for_sample_batch += measured_duration
SumDuration(total, measured_duration) == total + measured_duration

\* one iteration of the loop over 0..iters_count_hint: the logic is called with the
\* (ctx, state) pair and returns the next pair and its duration
LogicCall ==
  /\ pc = "logic"
  /\ calls' = [calls EXCEPT !.logic = @ + 1]
  /\ lastCall' = [fn |-> "logic", ok |-> TRUE]
  /\ \E measured_duration \in Durations :
       sample' = [sample EXCEPT !.iters = @ + 1,
                                !.total = SumDuration(@, measured_duration),
                                !.pair = Some(CarryOver(HeldPair.val,
                                                        LogicReturns(HeldPair.val))),
                                !.measured = Append(@, measured_duration),
                                !.received = Append(@, HeldPair.val)]
  /\ pc' = AfterLogic(sample.iters + 1, sample.hint)
  /\ emitted' = <<>>
  /\ pending' = <<>>
  /\ UNCHANGED <<axes, global_hooks, iter, idleVars, suite, counterVars, abstract_combo,
                 concrete_config, group, outcomes>>

\* the per-sample teardown takes the pair; the closure returns the summed duration
SampleTeardownCall ==
  /\ pc = "sample_teardown"
  /\ calls' = [calls EXCEPT !.sample_teardown = @ + 1]
  /\ lastCall' = [fn |-> "sample_teardown", ok |-> TRUE]
  /\ sample' = [sample EXCEPT !.active = FALSE, !.pair = None,
                              !.reported = Some(sample.total), !.torn = HeldPair]
  /\ pc' = "sampling"
  /\ emitted' = <<>>
  /\ pending' = <<>>
  /\ UNCHANGED <<axes, global_hooks, iter, idleVars, suite, counterVars, abstract_combo,
                 concrete_config, group, outcomes>>

\* what the global setup answered for a combination that was sampled
GlobalSetupAnswer(cs) == IF cs.global_setup > 0 THEN "ok" ELSE "not_called"

\* bench_with_input returns: the throughput is set on the group, the combination is
\* counted as run
BenchReturns ==
  /\ pc = "sampling"
  /\ pending = <<>>
  /\ group' = IF suite.throughput_calculator
              THEN [group EXCEPT !.throughput = Some(ThroughputOf(concrete_config.val))]
              ELSE group
  /\ calls' = IF suite.throughput_calculator THEN [calls EXCEPT !.throughput = @ + 1]
              ELSE calls
  /\ variants_run_count' = Incremented(variants_run_count)
  /\ LET next == AfterBench(suite)
     IN /\ pc' = next
        /\ outcomes' = IF next = "global_teardown" THEN outcomes
                       ELSE Append(outcomes, Outcome(TRUE, GlobalSetupAnswer(calls), "run"))
  /\ sample' = NoSample
  /\ emitted' = <<>>
  /\ UNCHANGED <<axes, pending, global_hooks, iter, idleVars, suite, total_variants,
                 variants_skipped_extraction, variants_skipped_global_setup,
                 abstract_combo, concrete_config, lastCall>>

\* (variant of AfterGlobalTeardown: a failing global teardown ends the run)
AfterGlobalTeardownFatal(ok) == IF ok THEN "loop" ELSE "aborted"

\* where run() goes on after the global teardown: the end of the loop body
AfterGlobalTeardown(ok) == "loop"

\* global_teardown(&concrete_config) after the samples
GlobalTeardownCall ==
  /\ pc = "global_teardown"
  /\ calls' = [calls EXCEPT !.global_teardown = @ + 1]
  /\ \E res \in HookResults :
       /\ lastCall' = [fn |-> "global_teardown", ok |-> res.ok]
       /\ global_hooks' = Append(global_hooks,
                                 HookCall("global_teardown", concrete_config.val))
       /\ emitted' = IF res.ok THEN <<>>
                     ELSE <<Line(suite, "stderr", "WARN", "global_teardown_failed",
                                 abstract_combo, concrete_config, res.err, <<>>)>>
       /\ pc' = AfterGlobalTeardown(res.ok)
  /\ outcomes' = Append(outcomes, Outcome(TRUE, GlobalSetupAnswer(calls), "run"))
  /\ UNCHANGED <<axes, pending, iter, idleVars, suite, counterVars, abstract_combo,
                 concrete_config, group, sample>>

\* (variant of Summary: the 'all variants' line is written whenever a combination
\* was run)
SummaryAndAllVariants(s, total, run, skippedExtraction, skippedGlobalSetup) ==
  (IF skippedExtraction > 0 \/ skippedGlobalSetup > 0
   THEN <<Line(s, "stderr", "", "summary", None, None, "",
               <<total, run, skippedExtraction, skippedGlobalSetup>>)>>
   ELSE <<>>)
  \o (IF run > 0
      THEN <<Line(s, "stdout", "", "all_variants", None, None, "", <<run>>)>>
      ELSE <<>>)

\* the lines run() writes after group.finish(): the summary with the four counts if a
\* combination was skipped, else the 'all variants' line if one was run, else nothing
Summary(s, total, run, skippedExtraction, skippedGlobalSetup) ==
  IF skippedExtraction > 0 \/ skippedGlobalSetup > 0
  THEN <<Line(s, "stderr", "", "summary", None, None, "",
              <<total, run, skippedExtraction, skippedGlobalSetup>>)>>
  ELSE IF run > 0
  THEN <<Line(s, "stdout", "", "all_variants", None, None, "", <<run>>)>>
  ELSE <<>>

\* after the loop: group.finish() and the summary
Finish ==
  /\ pc = "finish"
  /\ group' = [group EXCEPT !.finished = TRUE]
  /\ emitted' = Summary(suite, total_variants, variants_run_count,
                        variants_skipped_extraction, variants_skipped_global_setup)
  /\ pc' = "returned"
  /\ UNCHANGED <<axes, pending, global_hooks, iter, idleVars, suite, counterVars, abstract_combo,
                 concrete_config, sample, calls, lastCall, outcomes>>

NextRun ==
  \/ RunCall \/ ExtractorCall \/ LoopExit \/ GlobalSetupCall \/ CompensatingTeardownCall
  \/ SampleSetupCall \/ LogicCall \/ SampleTeardownCall \/ BenchReturns
  \/ GlobalTeardownCall \/ Finish \/ AwaitSuspends
SpecRun == InitRun /\ [][NextRun]_vars

\* run() with callbacks that all return and a harness that asks for finitely many
\* samples with finite hints: whatever step run() can take next is taken
\* (the suites and axis lists are those of InitRun that hold no names and generate at
\* most MaxFairCombos combinations)
InitRunFair ==
  /\ InitRun
  /\ ProductOfLens(axes) <= MaxFairCombos
  /\ axes \notin LookalikeAxes
  /\ ~suite.parameter_names.some
  /\ suite.extractor_fn = "all_cells"
SpecRunFair == InitRunFair /\ [][NextRun]_vars /\ WF_vars(NextRun)

\* ---- construction of a suite: new() and the builder methods ----

\* a second family of axis names, so that one valid list can replace another
OtherNameAt(i) == <<"M">> \o FmtUnsigned(i)

\* the name lists handed to new() and to parameter_names(): of every length from none
\* to one more than the axes, in two spellings
BuilderNamesInputs(axs) ==
  {[i \in 1..n |-> NameAt(i)] : n \in 0..(Len(axs) + 1)}
  \cup {[i \in 1..n |-> OtherNameAt(i)] : n \in 1..(Len(axs) + 1)}

\* the warning both variants write for a name list that does not fit the axes
MismatchLine(s, ns, axs) ==
  Line(s, "stderr", "WARN", "names_count_mismatch", None, None,
       "Parameter names will be ignored for ID generation", <<Len(ns), Len(axs)>>)

\* Sync/AsyncBenchmarkSuite::new: the arguments are stored as given, the optional
\* hooks are absent
new(variant, parameter_names_, extractor_fn_) ==
  [variant |-> variant, suite_base_name |-> SuiteName,
   parameter_names |-> parameter_names_, extractor_fn |-> extractor_fn_,
   global_setup_fn |-> FALSE, global_teardown_fn |-> FALSE,
   criterion_group_configurator |-> FALSE, throughput_calculator |-> FALSE]

\* only the async constructor compares the counts, and it only warns
newLines(s, axs) ==
  IF s.variant = "async" /\ s.parameter_names.some
     /\ Len(s.parameter_names.val) # Len(axs)
  THEN <<MismatchLine(s, s.parameter_names.val, axs)>>
  ELSE <<>>

\* (variant of parameter_names: on a mismatch the names held before are kept)
parameter_names_keeps_old(s, ns, axs) ==
  IF Len(ns) # Len(axs) THEN s ELSE [s EXCEPT !.parameter_names = Some(ns)]

\* the builder method parameter_names(names), the same in both variants
parameter_names(s, ns, axs) ==
  IF Len(ns) # Len(axs)
  THEN [s EXCEPT !.parameter_names = None]
  ELSE [s EXCEPT !.parameter_names = Some(ns)]

parameter_namesLines(s, ns, axs) ==
  IF Len(ns) # Len(axs) THEN <<MismatchLine(s, ns, axs)>> ELSE <<>>

\* the builder methods for the optional hooks
global_setup(s) == [s EXCEPT !.global_setup_fn = TRUE]
global_teardown(s) == [s EXCEPT !.global_teardown_fn = TRUE]
configure_criterion_group(s) == [s EXCEPT !.criterion_group_configurator = TRUE]
throughput(s) == [s EXCEPT !.throughput_calculator = TRUE]

buildIdle ==
  <<axes, iter, len0, yielded, late, nones, lenReads, combo0, combo, result,
    warned, counterVars, abstract_combo, concrete_config, group, sample, calls, lastCall,
    outcomes, global_hooks, pending>>

InitBuild ==
  /\ pc = "unbuilt"
  /\ axes \in RunAxesInputs
  /\ iter = [inner_iterator |-> <<>>, len |-> 0]
  /\ len0 = 0
  /\ yielded = <<>>
  /\ late = <<>>
  /\ nones = 0
  /\ lenReads = <<>>
  /\ combo0 = AbstractCombination(<<>>)
  /\ combo = combo0
  /\ call = NoCall
  /\ result = None
  /\ names = <<>>
  /\ warned = FALSE
  /\ NoRun

NewCall ==
  /\ pc = "unbuilt"
  /\ \E variant \in {"sync", "async"}, x \in {"all_cells", "first_cell"},
        pn \in {None} \cup {Some(ns) : ns \in BuilderNamesInputs(axes)} :
       /\ suite' = new(variant, pn, x)
       /\ emitted' = newLines(suite', axes)
       /\ names' = IF pn.some THEN pn.val ELSE <<>>
  /\ call' = [op |-> "new", index |-> 0]
  /\ pc' = "built"
  /\ UNCHANGED buildIdle

ParameterNamesCall ==
  /\ pc = "built"
  /\ \E ns \in BuilderNamesInputs(axes) :
       /\ suite' = parameter_names(suite, ns, axes)
       /\ emitted' = parameter_namesLines(suite, ns, axes)
       /\ names' = ns
  /\ call' = [op |-> "parameter_names", index |-> 0]
  /\ UNCHANGED <<pc, buildIdle>>

GlobalSetupBuilderCall ==
  /\ pc = "built"
  /\ suite' = global_setup(suite)
  /\ emitted' = <<>>
  /\ names' = <<>>
  /\ call' = [op |-> "global_setup", index |-> 0]
  /\ UNCHANGED <<pc, buildIdle>>

GlobalTeardownBuilderCall ==
  /\ pc = "built"
  /\ suite' = global_teardown(suite)
  /\ emitted' = <<>>
  /\ names' = <<>>
  /\ call' = [op |-> "global_teardown", index |-> 0]
  /\ UNCHANGED <<pc, buildIdle>>

ConfigureCriterionGroupCall ==
  /\ pc = "built"
  /\ suite' = configure_criterion_group(suite)
  /\ emitted' = <<>>
  /\ names' = <<>>
  /\ call' = [op |-> "configure_criterion_group", index |-> 0]
  /\ UNCHANGED <<pc, buildIdle>>

ThroughputBuilderCall ==
  /\ pc = "built"
  /\ suite' = throughput(suite)
  /\ emitted' = <<>>
  /\ names' = <<>>
  /\ call' = [op |-> "throughput", index |-> 0]
  /\ UNCHANGED <<pc, buildIdle>>

NextBuild ==
  \/ NewCall \/ ParameterNamesCall \/ GlobalSetupBuilderCall \/ GlobalTeardownBuilderCall
  \/ ConfigureCriterionGroupCall \/ ThroughputBuilderCall
SpecBuild == InitBuild /\ [][NextBuild]_vars

(***************************************************************************)
(* Properties of the generator (under SpecGen).                            *)
(***************************************************************************)
AllNonEmpty(axs) == \A i \in 1..Len(axs) : axs[i] # <<>>

\* n_i * n_(i+1) * ... * n_k; 1 when i is past the last axis
RECURSIVE ProdFrom(_, _)
ProdFrom(axs, i) == IF i > Len(axs) THEN 1 ELSE Len(axs[i]) * ProdFrom(axs, i + 1)

Iterating == pc = "iterating"
Exhausted == pc = "iterating" /\ nones >= 1

\* C1: for a non-empty axis list whose axes are all non-empty, with lengths n1..nk,
\* len() read right after generate_combinations is n1*...*nk, every combination
\* yielded has k cells, and a full iteration (up to the first None) yields exactly
\* n1*...*nk combinations.
C1_CountAndWidth ==
  (Iterating /\ axes # <<>> /\ AllNonEmpty(axes)) =>
    /\ len0 = ProdFrom(axes, 1)
    /\ \A j \in 1..Len(yielded) : Len(yielded[j].cells) = Len(axes)
    /\ Len(yielded) <= ProdFrom(axes, 1)
    /\ (Exhausted => Len(yielded) = ProdFrom(axes, 1))

C1_Witness ==
  /\ Exhausted
  /\ Len(axes) = 3
  /\ Len(axes[1]) = 2 /\ Len(axes[2]) = 3 /\ Len(axes[3]) = 2
  /\ Len(yielded) = 12
  /\ len0 = 12

\* C2: for the empty axis list, len() is 0 and the iteration yields no combination.
C2_EmptyAxisListYieldsNothing ==
  (Iterating /\ axes = <<>>) =>
    /\ len0 = 0
    /\ IterLen(iter) = 0
    /\ yielded = <<>>

\* C3: for a non-empty axis list with an empty axis at any position, len() is 0 and
\* no call of next() ever yields a combination.
C3_EmptyAxisYieldsNothing ==
  (Iterating /\ axes # <<>> /\ ~AllNonEmpty(axes)) =>
    /\ len0 = 0
    /\ IterLen(iter) = 0
    /\ yielded = <<>>
    /\ late = <<>>

C3_Witness ==
  /\ Exhausted
  /\ nones = MaxNones
  /\ Len(axes) = 3
  /\ axes[1] # <<>> /\ axes[2] = <<>> /\ axes[3] # <<>>
  /\ yielded = <<>>

\* C4: lexicographic order, last axis fastest: for axes of lengths n1..nk (all >= 1)
\* the j-th combination yielded (j from 0) holds at position i the element of axis i
\* with index (j div (n_(i+1)*...*n_k)) mod n_i; no row is yielded twice, and the
\* full iteration yields all n1*...*nk of them (the axes explored hold no duplicate).
C4_LexicographicOrder ==
  (Iterating /\ axes # <<>> /\ AllNonEmpty(axes)) =>
    /\ \A j \in 1..Len(yielded) :
         /\ Len(yielded[j].cells) = Len(axes)
         /\ \A i \in 1..Len(axes) :
              yielded[j].cells[i] =
                axes[i][(((j - 1) \div ProdFrom(axes, i + 1)) % Len(axes[i])) + 1]
    /\ \A j1, j2 \in 1..Len(yielded) : j1 # j2 => yielded[j1] # yielded[j2]
    /\ (Exhausted => Len(yielded) = ProdFrom(axes, 1))

\* the documented order (A,1),(A,2),(B,1),(B,2) of the axes [[A,B],[1,2]]
C4_Witness ==
  /\ Exhausted
  /\ axes = <<<<CellTag(<<"A">>), CellTag(<<"B">>)>>, <<CellInt(1), CellInt(2)>>>>
  /\ yielded = <<AbstractCombination(<<CellTag(<<"A">>), CellInt(1)>>),
                 AbstractCombination(<<CellTag(<<"A">>), CellInt(2)>>),
                 AbstractCombination(<<CellTag(<<"B">>), CellInt(1)>>),
                 AbstractCombination(<<CellTag(<<"B">>), CellInt(2)>>)>>

\* C6: the count does not depend on the progress of the iteration: after every call
\* of next(), also after exhaustion, len() returns what it returned at creation, the
\* product of the per-axis lengths.
C6_LenIndependentOfProgress ==
  Iterating =>
    /\ IterLen(iter) = len0
    /\ \A k \in 1..Len(lenReads) : lenReads[k] = len0
    /\ len0 = ProdFrom(axes, 1)

C6_Witness ==
  /\ Exhausted
  /\ nones = MaxNones
  /\ Len(yielded) = 6
  /\ Len(lenReads) >= 8
  /\ IterLen(iter) = 6

\* C7: len() and size_hint() are the number of combinations remaining: with N the
\* number yielded by the full iteration, len() is N at creation, N - k after k
\* successful calls of next(), and 0 once next() has returned None, where
\* size_hint() is (0, Some(0)).
C7_LenIsRemaining ==
  Exhausted =>
    /\ len0 = Len(yielded)
    /\ \A k \in 1..Len(yielded) : lenReads[k] = Len(yielded) - k
    /\ lenReads[Len(yielded) + 1] = 0
    /\ (late = <<>> => SizeHint(iter) = <<0, Some(0)>>)

(***************************************************************************)
(* Properties of the accessors and of id_suffix (under SpecParams).        *)
(***************************************************************************)
AccessorOps == {"get_tag", "get_string", "get_i64", "get_u64", "get_bool"}

\* the variant an accessor asks for, and its name as the error text spells it
Wanted(op) ==
  CASE op = "get_tag" -> "Tag"
    [] op = "get_string" -> "String"
    [] op = "get_i64" -> "Int"
    [] op = "get_u64" -> "Unsigned"
    [] op = "get_bool" -> "Bool"
VariantText(v) ==
  CASE v = "Tag" -> TagName
    [] v = "String" -> StringName
    [] v = "Int" -> IntName
    [] v = "Unsigned" -> UnsignedName
    [] v = "Bool" -> BoolName

StartsWith(s, prefix) == Len(s) >= Len(prefix) /\ SubSeq(s, 1, Len(prefix)) = prefix
EndsWith(s, suffix) ==
  Len(s) >= Len(suffix) /\ SubSeq(s, Len(s) - Len(suffix) + 1, Len(s)) = suffix
Contains(s, t) == \E a \in 1..(Len(s) - Len(t) + 1) : SubSeq(s, a, a + Len(t) - 1) = t
DropFirst(s, n) == SubSeq(s, n + 1, Len(s))

\* reading a decimal numeral back
IsDigits(s) == Len(s) >= 1 /\ \A k \in 1..Len(s) : s[k] \in Range(DigitChars)
DigitValue(c) == CHOOSE d \in 0..9 : DigitChars[d + 1] = c
RECURSIVE ParseUnsigned(_)
ParseUnsigned(s) ==
  IF Len(s) = 1 THEN DigitValue(s[1])
  ELSE 10 * ParseUnsigned(SubSeq(s, 1, Len(s) - 1)) + DigitValue(s[Len(s)])
\* s is the canonical decimal numeral of the natural number n
IsDecimalOf(s, n) ==
  /\ IsDigits(s)
  /\ (Len(s) > 1 => s[1] # "0")
  /\ ParseUnsigned(s) = n
\* s is the canonical decimal numeral of the integer v
IsSignedDecimalOf(s, v) ==
  IF v < 0 THEN Len(s) >= 2 /\ s[1] = "-" /\ IsDecimalOf(Tail(s), -v)
  ELSE IsDecimalOf(s, v)

\* the payload of a cell as text
PayloadText(cell) ==
  CASE cell.variant \in {"Tag", "String"} -> cell.payload
    [] cell.variant = "Int" -> FmtInt(cell.payload)
    [] cell.variant = "Unsigned" -> FmtUnsigned(cell.payload)
    [] cell.variant = "Bool" -> FmtBool(cell.payload)

\* C8: an accessor returns Ok(payload) exactly when the index is inside the
\* combination and the cell there has the requested variant; the payload returned is
\* that cell's; no variant is coerced into another.
C8_AccessorOkIffVariant ==
  (pc = "params" /\ call.op \in AccessorOps) =>
    LET i == call.index
        hit == i < Len(combo.cells) /\ combo.cells[i + 1].variant = Wanted(call.op)
    IN /\ result.ok <=> hit
       /\ hit => result.value = combo.cells[i + 1].payload

\* get_i64 on an Unsigned cell fails
C8_Witness ==
  /\ pc = "params"
  /\ call.op = "get_i64"
  /\ call.index = 1
  /\ Len(combo.cells) = 3
  /\ combo.cells[2].variant = "Unsigned"
  /\ ~result.ok

\* C9: a failing accessor returns an error value that names the requested index and
\* tells the two causes apart: past the end, that no cell exists at that index; for
\* a cell of another variant, the index and the variant and payload found.  The
\* combination is unchanged by the call.
C9_AccessorErrors ==
  (pc = "params" /\ call.op \in AccessorOps) =>
    /\ combo = combo0
    /\ result.ok \in BOOLEAN
    /\ ~result.ok =>
         LET i == call.index
             e == result.err
         IN IF i >= Len(combo.cells)
            THEN /\ StartsWith(e, NoCellLit)
                 /\ IsDecimalOf(DropFirst(e, Len(NoCellLit)), i)
                 /\ ~Contains(e, FoundLit)
            ELSE LET head == ExpectedLit \o VariantText(Wanted(call.op)) \o AtIndexLit
                     cell == combo.cells[i + 1]
                     found == VariantText(cell.variant) \o <<"(">>
                 IN /\ StartsWith(e, head)
                    /\ ~StartsWith(e, NoCellLit)
                    /\ \E n \in 1..(Len(e) - Len(head)) :
                         /\ IsDecimalOf(SubSeq(e, Len(head) + 1, Len(head) + n), i)
                         /\ StartsWith(DropFirst(e, Len(head) + n), FoundLit \o found)
                         /\ Contains(DropFirst(e, Len(head) + n + Len(FoundLit \o found)),
                                     PayloadText(cell))
                         /\ EndsWith(e, <<")">>)

\* get_bool on a String cell: the error names index 2 and String("Mé P.9")
C9_Witness ==
  /\ pc = "params"
  /\ call.op = "get_bool"
  /\ call.index = 2
  /\ Len(combo.cells) = 3
  /\ combo.cells[3].variant = "String"
  /\ ~result.ok
  /\ EndsWith(result.err, <<"2", ",", " ", "f", "o", "u", "n", "d", " ", "S", "t", "r", "i",
                           "n", "g", "(", "\"", "M", "é", " ", "P", ".", "9", "\"", ")">>)

\* the alphanumeric characters: the letters and digits of ASCII and of the other
\* scripts
LettersAndDigits ==
  Range(DigitChars) \cup Range(UpperChars) \cup Range(LowerChars)
  \cup Range(OtherAlphanumericChars)

\* what the fragment of one cell has to be
FragmentOk(cell, f) ==
  CASE cell.variant = "Tag" -> f = cell.payload
    [] cell.variant = "String" ->
         /\ Len(f) = Len(cell.payload)
         /\ \A k \in 1..Len(f) :
              f[k] = IF cell.payload[k] \in LettersAndDigits
                     THEN cell.payload[k] ELSE "_"
    [] cell.variant = "Int" ->
         /\ StartsWith(f, <<"I", "n", "t">>)
         /\ IsSignedDecimalOf(DropFirst(f, 3), cell.payload)
    [] cell.variant = "Unsigned" ->
         /\ StartsWith(f, <<"U", "i", "n", "t">>)
         /\ IsDecimalOf(DropFirst(f, 4), cell.payload)
    [] cell.variant = "Bool" ->
         f = <<"B", "o", "o", "l">> \o
             (IF cell.payload THEN <<"t", "r", "u", "e">> ELSE <<"f", "a", "l", "s", "e">>)

\* '_' followed by the fragment, for every cell in order
RECURSIVE UnderscoredFragments(_)
UnderscoredFragments(cells) ==
  IF cells = <<>> THEN <<>>
  ELSE UnderscoredFragments(SubSeq(cells, 1, Len(cells) - 1))
       \o <<"_">> \o Fragment(cells[Len(cells)])

\* C10: id_suffix() is the concatenation, in cell order, of '_' and each cell's
\* fragment (Tag: raw text; String: non-alphanumerics replaced by '_'; 'Int'+v;
\* 'Uint'+v; 'Bool'+b), and exactly '_' for the empty combination.
C10_IdSuffix ==
  (pc = "params" /\ call.op = "id_suffix") =>
    /\ \A i \in 1..Len(combo.cells) : FragmentOk(combo.cells[i], Fragment(combo.cells[i]))
    /\ result = IF combo.cells = <<>> THEN <<"_">> ELSE UnderscoredFragments(combo.cells)

\* [Tag(StdTokio), Int(1024), Bool(true)] gives _StdTokio_Int1024_Booltrue
C10_Witness ==
  /\ pc = "params"
  /\ call.op = "id_suffix"
  /\ combo.cells = <<CellTag(<<"S", "t", "d", "T", "o", "k", "i", "o">>),
                     CellInt(1024), CellBool(TRUE)>>
  /\ result = <<"_", "S", "t", "d", "T", "o", "k", "i", "o", "_", "I", "n", "t", "1", "0",
                "2", "4", "_", "B", "o", "o", "l", "t", "r", "u", "e">>

(***************************************************************************)
(* Properties of id_suffix_with_names (under SpecParams).                  *)
(***************************************************************************)
NamedCall == pc = "params" /\ call.op = "id_suffix_with_names"
NamesMatch == Len(names) = Len(combo.cells)

\* '_' name '-' fragment for every position, with the fragment given by frag
NamedWith(frag(_)) ==
  ConcatAll([i \in 1..Len(combo.cells) |->
               <<"_">> \o names[i] \o <<"-">> \o frag(combo.cells[i])])

\* what the plain value of one cell has to be
PlainOk(cell, f) ==
  CASE cell.variant = "Tag" -> f = cell.payload
    [] cell.variant = "String" ->
         /\ Len(f) = Len(cell.payload)
         /\ \A k \in 1..Len(f) :
              f[k] = IF cell.payload[k] \in LettersAndDigits
                     THEN cell.payload[k] ELSE "_"
    [] cell.variant = "Int" -> IsSignedDecimalOf(f, cell.payload)
    [] cell.variant = "Unsigned" -> IsDecimalOf(f, cell.payload)
    [] cell.variant = "Bool" ->
         f = (IF cell.payload THEN <<"t", "r", "u", "e">> ELSE <<"f", "a", "l", "s", "e">>)

\* C11 (as stated): with as many names as cells, id_suffix_with_names is the
\* concatenation over the positions of '_' name '-' fragment, the fragment being the
\* one of the unnamed form (Tag raw, String sanitised, 'Int'+v, 'Uint'+v, 'Bool'+v).
C11_NamedUsesUnnamedFragment ==
  (NamedCall /\ NamesMatch) => result = NamedWith(Fragment)

\* C11 (amended): with as many names as cells, id_suffix_with_names is the
\* concatenation over the positions of '_' name '-' value, the value being the raw
\* text of a Tag, the sanitised text of a String, and the bare decimal or true/false
\* of an Int, Unsigned or Bool, without the type prefix of the unnamed form.
C11_NamedUsesPlainValue ==
  (NamedCall /\ NamesMatch) =>
    /\ result = NamedWith(NamedFragment)
    /\ \A i \in 1..Len(combo.cells) : PlainOk(combo.cells[i], NamedFragment(combo.cells[i]))

\* [String("Mé P.9"), Int(-7), Bool(true)] named Backend, BlockSize, Mode
C11_Witness ==
  /\ NamedCall
  /\ combo.cells = <<CellString(<<"M", "é", " ", "P", ".", "9">>), CellInt(-7), CellBool(TRUE)>>
  /\ Len(names) = 3
  /\ result = <<"_", "B", "a", "c", "k", "e", "n", "d", "-", "M", "é", "_", "P", "_", "9",
                "_", "B", "l", "o", "c", "k", "S", "i", "z", "e", "-", "-", "7",
                "_", "M", "o", "d", "e", "-", "t", "r", "u", "e">>

\* the combination and the names cut down to their first n positions
FirstCells(n) == AbstractCombination(SubSeq(combo.cells, 1, n))
FirstNames(n) == SubSeq(names, 1, n)

\* C12: the named suffix renders each position as '_' name '-' followed by the plain
\* value without a type prefix: a Tag as its raw text, an Unsigned as its bare
\* decimal numeral.
C12_NamedPlainTagAndUnsigned ==
  (NamedCall /\ NamesMatch) =>
    \A i \in 1..Len(combo.cells) :
      LET cell == combo.cells[i]
          before == id_suffix_with_names(FirstCells(i - 1), FirstNames(i - 1))
          upto == id_suffix_with_names(FirstCells(i), FirstNames(i))
          head == before \o <<"_">> \o names[i] \o <<"-">>
      IN /\ StartsWith(result, upto)
         /\ StartsWith(upto, head)
         /\ cell.variant = "Tag" => DropFirst(upto, Len(head)) = cell.payload
         /\ cell.variant = "Unsigned" => IsDecimalOf(DropFirst(upto, Len(head)), cell.payload)

\* [Tag(Uring), Unsigned(512)] named Backend, BlockSize gives _Backend-Uring_BlockSize-512
C12_Witness ==
  /\ NamedCall
  /\ combo.cells = <<CellTag(<<"U", "r", "i", "n", "g">>), CellUnsigned(512)>>
  /\ names = <<<<"B", "a", "c", "k", "e", "n", "d">>,
               <<"B", "l", "o", "c", "k", "S", "i", "z", "e">>>>
  /\ result = <<"_", "B", "a", "c", "k", "e", "n", "d", "-", "U", "r", "i", "n", "g",
                "_", "B", "l", "o", "c", "k", "S", "i", "z", "e", "-", "5", "1", "2">>

\* C13: when the number of names is not the number of cells (fewer or more), the call
\* does not fail: it returns exactly what id_suffix() returns and writes a warning.
C13_MismatchFallsBack ==
  (NamedCall /\ ~NamesMatch) =>
    /\ result = id_suffix(combo)
    /\ result = (IF combo.cells = <<>> THEN <<"_">> ELSE UnderscoredFragments(combo.cells))
    /\ warned

\* [Tag(Uring), Unsigned(512)] with the one name Backend gives _Uring_Uint512
C13_Witness ==
  /\ NamedCall
  /\ combo.cells = <<CellTag(<<"U", "r", "i", "n", "g">>), CellUnsigned(512)>>
  /\ names = <<<<"B", "a", "c", "k", "e", "n", "d">>>>
  /\ result = <<"_", "U", "r", "i", "n", "g", "_", "U", "i", "n", "t", "5", "1", "2">>
  /\ warned

(***************************************************************************)
(* Properties of run() (under SpecRun).                                    *)
(***************************************************************************)
\* a step of run() in which the callback f is invoked
ExtractorInvoked == abstract_combo' # abstract_combo
Invoked(f) == calls'[f] = calls[f] + 1
LifecycleCallbacks ==
  {"global_setup", "sample_setup", "logic", "sample_teardown", "global_teardown"}

\* the callback that comes before the first sample of a combination
BeforeSamples == IF suite.global_setup_fn THEN "global_setup" ELSE "extractor"

\* f may be invoked right after the callback prev, for the same combination
Follows(prev, f) ==
  CASE f = "global_setup" -> suite.global_setup_fn /\ prev.fn = "extractor" /\ prev.ok
    [] f = "sample_setup" -> prev.fn \in {BeforeSamples, "sample_teardown"} /\ prev.ok
    [] f = "logic" -> prev.fn \in {"sample_setup", "logic"} /\ prev.ok
    [] f = "sample_teardown" -> prev.fn \in {"sample_setup", "logic"} /\ prev.ok
    [] f = "global_teardown" ->
         /\ suite.global_teardown_fn
         /\ \/ prev.fn \in {BeforeSamples, "sample_teardown"} /\ prev.ok
            \/ prev.fn = "global_setup" /\ ~prev.ok

\* the sequence of callbacks of the current combination may end after lastCall
MayEnd ==
  \/ lastCall.fn = "none"
  \/ lastCall.fn = "extractor" /\ ~lastCall.ok
  \/ lastCall.fn = "global_setup" /\ ~lastCall.ok /\ ~suite.global_teardown_fn
  \/ /\ lastCall.fn \in {BeforeSamples, "sample_teardown"}
     /\ lastCall.ok
     /\ ~suite.global_teardown_fn
  \/ lastCall.fn = "global_teardown"

\* C14: for every combination run() processes, in either variant, the callbacks are
\* invoked in the order extractor, global setup if registered, zero or more samples
\* (sample setup, logic x N, sample teardown), global teardown if registered: every
\* callback invoked directly follows one the order allows, the extractor of the next
\* combination and the end of the loop come only after a complete sequence.
C14_LifecycleOrder ==
  [][/\ ExtractorInvoked => (lastCall'.fn = "extractor" /\ MayEnd)
     /\ \A f \in LifecycleCallbacks :
          Invoked(f) => (lastCall'.fn = f /\ Follows(lastCall, f))
     /\ (pc = "loop" /\ pc' = "finish") => MayEnd]_vars

\* an async suite with both global hooks has run two samples of a combination
C14_Witness ==
  /\ pc = "loop"
  /\ suite.variant = "async"
  /\ suite.global_setup_fn /\ suite.global_teardown_fn
  /\ calls = [extractor |-> 1, global_setup |-> 1, sample_setup |-> 2, logic |-> 2,
              sample_teardown |-> 2, global_teardown |-> 1, throughput |-> 1]
  /\ lastCall.fn = "global_teardown"
  /\ Len(outcomes) = 2

RECURSIVE SeqSum(_)
SeqSum(q) == IF q = <<>> THEN 0 ELSE q[1] + SeqSum(Tail(q))

\* C15: within every sample whose setup succeeded the logic is invoked exactly
\* iters_count_hint times (also for hint 0), and the duration the closure returns to
\* the harness is the sum of the durations those invocations returned (zero for hint
\* 0); nothing is added for setup or teardown.
C15_LogicCountAndDuration ==
  /\ sample.active =>
       /\ calls.logic = Len(sample.measured)
       /\ calls.logic <= sample.hint
       /\ sample.total = SeqSum(sample.measured)
  /\ sample.reported.some =>
       /\ lastCall.fn = "sample_teardown"
       /\ calls.logic = sample.hint
       /\ Len(sample.measured) = sample.hint
       /\ sample.reported.val = SeqSum(sample.measured)
       /\ sample.hint = 0 => sample.reported.val = 0

\* a sample with hint 2 whose iterations took 2 and 1 reports 3
C15_Witness ==
  /\ pc = "sampling"
  /\ sample.hint = 2
  /\ sample.measured = <<2, 1>>
  /\ sample.reported = Some(3)
  /\ calls.logic = 2

\* the per-sample setup was invoked last and failed
SampleSetupFailed == lastCall.fn = "sample_setup" /\ ~lastCall.ok

\* C16: the per-sample teardown runs exactly once per sample whose setup succeeded,
\* after the last logic iteration of that sample and before the next sample's setup,
\* whatever the hint (for hint 0 it directly follows the setup).
C16_TeardownOncePerSample ==
  /\ [](/\ calls.sample_teardown <= calls.sample_setup
        /\ calls.sample_setup <= calls.sample_teardown + 1
        /\ (calls.sample_setup = calls.sample_teardown + 1) <=>
             (sample.active \/ SampleSetupFailed)
        /\ sample.active => ~sample.reported.some)
  /\ [][/\ Invoked("sample_teardown") =>
             /\ sample.active
             /\ calls.logic = sample.hint
             /\ lastCall.fn = IF sample.hint = 0 THEN "sample_setup" ELSE "logic"
             /\ ~sample'.active
        /\ Invoked("sample_setup") =>
             /\ ~sample.active
             /\ calls.sample_teardown = calls.sample_setup
        /\ (sample.active /\ ~sample'.active) => Invoked("sample_teardown")]_vars

\* a sample with hint 0 was set up and torn down, then a second one with hint 2
C16_Witness ==
  /\ pc = "sampling"
  /\ calls.sample_setup = 2
  /\ calls.sample_teardown = 2
  /\ sample.hint = 2
  /\ sample.reported.some
  /\ lastCall.fn = "sample_teardown"

\* the first sample of a combination had hint 0 and was torn down right after setup
C16_WitnessHintZero ==
  /\ pc = "sampling"
  /\ calls.sample_setup = 1
  /\ calls.sample_teardown = 1
  /\ calls.logic = 0
  /\ sample.hint = 0
  /\ sample.reported = Some(0)

\* the extractor was invoked last and failed
ExtractionFailed == lastCall.fn = "extractor" /\ ~lastCall.ok

\* C17: when the extractor fails for a combination the combination is skipped: no
\* global setup, global teardown or per-sample callback is invoked for it and no case
\* is registered for it, the extraction-skip counter goes up by one (the other
\* counters stay), and the run goes on with the next combination.
C17_ExtractionFailureSkips ==
  [][/\ (ExtractorInvoked /\ ~lastCall'.ok) =>
          /\ variants_skipped_extraction' = variants_skipped_extraction + 1
          /\ UNCHANGED <<total_variants, variants_run_count, variants_skipped_global_setup>>
          /\ group' = group
          /\ ~concrete_config'.some
          /\ calls' = [NoCalls EXCEPT !.extractor = 1]
          /\ pc' = "loop"
     /\ ExtractionFailed =>
          /\ pc \in {"loop", "finish"}
          /\ \A f \in LifecycleCallbacks : ~Invoked(f)
          /\ calls'.throughput = calls.throughput \/ ExtractorInvoked
          /\ group'.cases = group.cases \/ ExtractorInvoked
          /\ pc = "loop" => (ExtractorInvoked \/ pc' = "finish")]_vars

\* the first combination failed to extract, the second was extracted
C17_Witness ==
  /\ Len(outcomes) = 1
  /\ outcomes[1].reached = "skipped_extraction"
  /\ variants_skipped_extraction = 1
  /\ variants_run_count = 0
  /\ lastCall = [fn |-> "extractor", ok |-> TRUE]
  /\ concrete_config.some
  /\ group.cases = <<>>

\* the global setup was invoked last and failed; the compensating teardown has run
GlobalSetupFailed == lastCall.fn = "global_setup" /\ ~lastCall.ok
Compensated ==
  /\ lastCall.fn = "global_teardown"
  /\ outcomes # <<>>
  /\ outcomes[Len(outcomes)].reached = "skipped_global_setup"

\* C18: when a registered global setup fails for a configuration, no case is
\* registered and no per-sample callback is invoked for it; a registered global
\* teardown is invoked exactly once for it, as the very next callback (before the next
\* extractor call), and its failure is only logged as a warning; the global-setup-skip
\* counter goes up by one (the other counters stay) and the run goes on with the next
\* combination.
C18_GlobalSetupFailureSkips ==
  [][/\ (Invoked("global_setup") /\ ~lastCall'.ok) =>
          /\ variants_skipped_global_setup' = variants_skipped_global_setup + 1
          /\ UNCHANGED <<total_variants, variants_run_count, variants_skipped_extraction>>
          /\ group' = group
          /\ calls'.sample_setup = 0 /\ calls'.global_teardown = 0
          /\ pc' = IF suite.global_teardown_fn THEN "compensation" ELSE "loop"
     /\ (GlobalSetupFailed /\ suite.global_teardown_fn) =>
          /\ pc = "compensation"
          /\ Invoked("global_teardown") /\ calls'.global_teardown = 1
          /\ ~ExtractorInvoked
          /\ UNCHANGED <<counterVars, group, iter>>
          /\ pc' = "loop"
          /\ emitted' = <<>> \/ (~lastCall'.ok /\ Len(emitted') = 1 /\ emitted'[1].level = "WARN")
     /\ ((GlobalSetupFailed /\ ~suite.global_teardown_fn) \/ Compensated) =>
          /\ pc \in {"loop", "finish"}
          /\ \A f \in LifecycleCallbacks : ~Invoked(f)
          /\ group'.cases = group.cases \/ ExtractorInvoked
          /\ pc = "loop" => (ExtractorInvoked \/ pc' = "finish")]_vars

\* the global setup of the second combination failed and its compensating teardown
\* failed too; the first combination had been run
C18_Witness ==
  /\ pc = "loop"
  /\ Len(outcomes) = 2
  /\ outcomes[1].reached = "run"
  /\ outcomes[2] = Outcome(TRUE, "failed", "skipped_global_setup")
  /\ lastCall = [fn |-> "global_teardown", ok |-> FALSE]
  /\ calls.global_setup = 1 /\ calls.global_teardown = 1 /\ calls.sample_setup = 0
  /\ variants_skipped_global_setup = 1
  /\ variants_run_count = 1 /\ variants_skipped_extraction = 0
  /\ Len(group.cases) = 1
  /\ Len(emitted) = 1 /\ emitted[1].what = "compensating_teardown_failed"

\* the j-th combination the generator yields for axs (j from 1)
RowAt(axs, j) ==
  [i \in 1..Len(axs) |-> axs[i][(((j - 1) \div ProdFrom(axs, i + 1)) % Len(axs[i])) + 1]]

\* how many combinations the iteration over the axes yields
Generated == ProdFrom(axes, 1)

\* the combinations processed so far that reached the outcome o, in order
RECURSIVE Reached(_, _)
Reached(o, n) ==
  IF n = 0 THEN <<>>
  ELSE IF outcomes[n].reached = o THEN Append(Reached(o, n - 1), n) ELSE Reached(o, n - 1)

BetweenCombinations == pc \in {"loop", "finish", "returned"} /\ group.created

\* C19: fault isolation: every combination whose own extraction and global setup
\* succeed has its case registered and is counted as run, whatever happened to the
\* combinations before and after it; a run that returns has reached every generated
\* combination.
C19_FaultIsolation ==
  /\ \A i \in 1..Len(outcomes) :
       (outcomes[i].extracted /\ outcomes[i].global_setup # "failed")
         <=> outcomes[i].reached = "run"
  /\ BetweenCombinations =>
       LET ran == Reached("run", Len(outcomes))
       IN /\ Len(group.cases) = Len(ran)
          /\ \A n \in 1..Len(ran) :
               group.cases[n].input =
                 ExtractedConfig(suite, AbstractCombination(RowAt(axes, ran[n])))
          /\ variants_run_count = Len(ran)
  /\ (pc \in {"finish", "returned"} /\ group.created) => Len(outcomes) = Generated

\* of four combinations the first failed to extract and the third failed its global
\* setup; the second and the fourth were run
C19_Witness ==
  /\ pc = "returned"
  /\ Len(outcomes) = 4
  /\ outcomes[1].reached = "skipped_extraction"
  /\ outcomes[2].reached = "run"
  /\ outcomes[3].reached = "skipped_global_setup"
  /\ outcomes[4].reached = "run"
  /\ Len(group.cases) = 2
  /\ group.cases[2].input = [extracted_from |-> RowAt(axes, 4)]

SummaryLines == {"summary", "all_variants", "nothing_to_run"}

\* C20: a failing per-sample setup is fatal: the run stops in an abort state, in which
\* no logic iteration and no teardown was invoked for that sample, no global teardown
\* for that combination, the three counters hold what they held before the
\* combination (it is counted nowhere), the group is not finished and no summary line
\* is written; no step of run() follows, so no later combination is processed.
C20_SampleSetupFailureAborts ==
  /\ [](SampleSetupFailed =>
          /\ pc = "aborted"
          /\ ~sample.active /\ calls.logic = 0
          /\ calls.sample_teardown = calls.sample_setup - 1
          /\ calls.global_teardown = 0
          /\ variants_run_count = Len(Reached("run", Len(outcomes)))
          /\ variants_skipped_extraction = Len(Reached("skipped_extraction", Len(outcomes)))
          /\ variants_skipped_global_setup =
               Len(Reached("skipped_global_setup", Len(outcomes)))
          /\ variants_run_count + variants_skipped_extraction
               + variants_skipped_global_setup = Len(outcomes)
          /\ Len(outcomes) < Generated
          /\ Len(group.cases) = variants_run_count + 1
          /\ ~group.finished
          /\ \A n \in 1..Len(emitted) : emitted[n].what \notin SummaryLines)
  /\ [][~SampleSetupFailed]_vars
  /\ [][(Invoked("sample_setup") /\ ~lastCall'.ok) =>
          UNCHANGED <<counterVars, outcomes, group, iter>>]_vars

\* the first combination was run; the setup of the second sample of the second
\* combination failed
C20_Witness ==
  /\ pc = "aborted"
  /\ SampleSetupFailed
  /\ Len(outcomes) = 1
  /\ variants_run_count = 1
  /\ calls.sample_setup = 2 /\ calls.sample_teardown = 1
  /\ Len(group.cases) = 2
  /\ Len(emitted) = 1 /\ emitted[1].level = "PANIC"

\* a global teardown was invoked last and failed
GlobalTeardownFailed == lastCall.fn = "global_teardown" /\ ~lastCall.ok

\* C21: a global teardown failure is never fatal: after normal sampling and as
\* compensation after a failed global setup alike, it writes one warning and nothing
\* else, leaves the three counters as they were (the combination stays counted as run,
\* or as skipped at global setup), and the run goes on with the next combination or,
\* after the last one, with the summary.
C21_GlobalTeardownFailureNotFatal ==
  [][/\ (Invoked("global_teardown") /\ ~lastCall'.ok) =>
          /\ UNCHANGED <<counterVars, group, iter>>
          /\ Len(emitted') = 1
          /\ emitted'[1].level = "WARN" /\ emitted'[1].stream = "stderr"
          /\ pc' = "loop"
          /\ outcomes' = Append(outcomes, outcomes'[Len(outcomes')])
          /\ outcomes'[Len(outcomes')].reached =
               (IF pc = "compensation" THEN "skipped_global_setup" ELSE "run")
          /\ variants_run_count' = Len(Reached("run", Len(outcomes)))'
          /\ variants_skipped_global_setup' =
               Len(Reached("skipped_global_setup", Len(outcomes)))'
     /\ GlobalTeardownFailed =>
          /\ pc \in {"loop", "finish", "returned"}
          /\ pc = "loop" => (ExtractorInvoked \/ pc' = "finish")
          /\ pc = "finish" => pc' = "returned"]_vars

\* the first combination was skipped at its global setup; the global teardown of the
\* second has just failed after its samples: one WARN line, the combination counted as
\* run, and run() at the head of the loop with a third combination to go
C21_Witness ==
  /\ suite.global_teardown_fn
  /\ GlobalTeardownFailed
  /\ Len(emitted) = 1
  /\ emitted[1].what = "global_teardown_failed" /\ emitted[1].level = "WARN"
  /\ pc = "loop"
  /\ Len(outcomes) = 2
  /\ outcomes[1].reached = "skipped_global_setup"
  /\ outcomes[2].reached = "run"
  /\ variants_run_count = 1 /\ variants_skipped_global_setup = 1
  /\ variants_skipped_extraction = 0
  /\ total_variants >= 3
  /\ Len(group.cases) = 1
  /\ ~group.finished

\* the position, in generator order, of the combination run() is processing
Current == IF pc \in {"loop", "finish", "returned"} THEN Len(outcomes) ELSE Len(outcomes) + 1

\* C22: combinations are processed one at a time in generator order: the k-th
\* extractor invocation is for the k-th row of the Cartesian product, it happens at
\* the head of the loop only, and by then each of the k-1 earlier combinations has
\* reached its terminal point (extraction skip, global-setup skip with the
\* compensating teardown, or completion with the global teardown); a combination is
\* recorded as terminated exactly when its last callback has returned.
C22_OneAtATimeInGeneratorOrder ==
  /\ [](abstract_combo.some =>
          abstract_combo.val = AbstractCombination(RowAt(axes, Current)))
  /\ [][/\ ExtractorInvoked =>
             /\ pc = "loop"
             /\ MayEnd
             /\ calls'.extractor = 1
             /\ abstract_combo' = Some(AbstractCombination(RowAt(axes, Len(outcomes) + 1)))
             /\ Len(outcomes') \in {Len(outcomes), Len(outcomes) + 1}
        /\ outcomes' # outcomes =>
             /\ Len(outcomes') = Len(outcomes) + 1
             /\ pc' = "loop"
             /\ MayEnd'
        /\ (pc' = "loop" /\ pc # "built") => Len(outcomes') = Len(outcomes) + 1]_vars

\* the extractor is invoked for the third row after the first combination was run
\* and torn down and the second was skipped at extraction
C22_Witness ==
  /\ Len(outcomes) = 2
  /\ outcomes[1].reached = "run" /\ outcomes[2].reached = "skipped_extraction"
  /\ suite.global_teardown_fn
  /\ pc \notin {"loop", "finish", "returned"}
  /\ calls.extractor = 1
  /\ lastCall.fn = "extractor"
  /\ abstract_combo = Some(AbstractCombination(RowAt(axes, 3)))
  /\ Len(axes) = 2

\* C23: with a throughput calculator registered, the throughput annotation under
\* which the harness registers and measures the case of a combination is the value
\* computed from that combination's own configuration, for every case including the
\* first: never absent and never the value of another combination.
C23_ThroughputOfOwnConfiguration ==
  suite.throughput_calculator =>
    \A n \in 1..Len(group.cases) :
      group.cases[n].throughput = Some(ThroughputOf(group.cases[n].input))

\* the names are held by the suite and there is one for each axis
NamesFit == suite.parameter_names.some /\ Len(suite.parameter_names.val) = Len(axes)

\* what the label of the case of combination c has to be
LabelOk(c, label) ==
  IF NamesFit
  THEN IF c.cells = <<>> THEN label = <<>>
       ELSE <<"_">> \o label =
              ConcatAll([i \in 1..Len(c.cells) |->
                           <<"_">> \o suite.parameter_names.val[i] \o <<"-">>
                           \o NamedFragment(c.cells[i])])
  ELSE <<"_">> \o label =
         (IF c.cells = <<>> THEN <<"_">> ELSE UnderscoredFragments(c.cells))

\* C24: the label of the case of each non-skipped combination is the combination's
\* identifier suffix without its one leading '_': the named form when the suite holds
\* names and there is one per axis, the unnamed form when it holds none or holds a
\* list of another length (which new() stores as given); one case is registered at a
\* time, for the combination being processed, and the unnamed form replaces the named
\* one with a warning.
C24_CaseLabel ==
  [][group'.cases # group.cases =>
       /\ Len(group'.cases) = Len(group.cases) + 1
       /\ SubSeq(group'.cases, 1, Len(group.cases)) = group.cases
       /\ abstract_combo'.some
       /\ LabelOk(abstract_combo'.val, group'.cases[Len(group'.cases)].id)
       /\ (emitted' # <<>>) <=> (suite.parameter_names.some /\ ~NamesFit)
       /\ \A n \in 1..Len(emitted') : emitted'[n].level = "WARN"]_vars

\* a suite holding three names for two axes has registered the case of (A, 1) under
\* the unnamed label A_Int1
C24_Witness ==
  /\ suite.parameter_names.some
  /\ Len(suite.parameter_names.val) = 3
  /\ Len(axes) = 2
  /\ Len(group.cases) = 1
  /\ group.cases[1].id = <<"A", "_", "I", "n", "t", "1">>
  /\ group.cases[1].input = [extracted_from |-> <<CellTag(<<"A">>), CellInt(1)>>]

\* a suite holding two names for two axes has registered the case of (A, 1) under
\* the named label Backend-A_BlockSize-1
C24_WitnessNamed ==
  /\ NamesFit
  /\ Len(axes) = 2
  /\ Len(group.cases) = 1
  /\ group.cases[1].id = <<"B", "a", "c", "k", "e", "n", "d", "-", "A", "_",
                          "B", "l", "o", "c", "k", "S", "i", "z", "e", "-", "1">>

\* the summary lines among the lines written by the last step
SummaryWritten == {n \in 1..Len(emitted) : emitted[n].what \in SummaryLines}

\* C26: every run that returns has written exactly one end-of-run summary line
\* ('Nothing to run', the summary with the counts, or the 'all variants' line), for
\* every axis list, the empty one included, and every pattern of skips: the step that
\* returns writes one such line, and no other step of the run writes any.
C26_OneSummaryLine ==
  /\ [](pc = "returned" => Cardinality(SummaryWritten) = 1)
  /\ [][/\ pc' = "returned" => Cardinality(SummaryWritten') = 1
        /\ pc' # "returned" => SummaryWritten' = {}]_vars

\* run() of a suite without axes: the one empty combination was processed and run,
\* and the returning step wrote the 'all variants' line and nothing else
C26_Witness ==
  /\ pc = "returned"
  /\ axes = <<>>
  /\ group.finished
  /\ Len(outcomes) = 1 /\ outcomes[1].reached = "run"
  /\ Len(emitted) = 1
  /\ emitted[1].what = "all_variants" /\ emitted[1].counts = <<1>>

\* a list with an empty axis: 'Nothing to run' is the only line of the run
C26_WitnessNothingToRun ==
  /\ pc = "returned"
  /\ axes # <<>>
  /\ ~group.created
  /\ Len(emitted) = 1 /\ emitted[1].what = "nothing_to_run"

\* two combinations, one run and one skipped: the summary with the counts is the only
\* summary line
C26_WitnessSummary ==
  /\ pc = "returned"
  /\ Len(outcomes) = 2
  /\ variants_run_count = 1
  /\ Len(emitted) = 1
  /\ emitted[1].what = "summary"

\* the global setup invocations of the run so far, in order
GlobalSetups == SelectSeq(global_hooks, LAMBDA h : h.fn = "global_setup")

\* the configurations of the first n combinations that were extracted, in order
RECURSIVE ExtractedUpTo(_)
ExtractedUpTo(n) ==
  IF n = 0 THEN <<>>
  ELSE IF outcomes[n].extracted THEN Append(ExtractedUpTo(n - 1), outcomes[n].config.val)
       ELSE ExtractedUpTo(n - 1)

\* the combination being processed has had its global setup invoked
SetUpInProgress == Current = Len(outcomes) + 1 /\ calls.global_setup = 1

\* C27 (as stated): with a global setup registered, every configuration value the
\* extractor produced has had the global setup invoked with it exactly once, also
\* when several combinations extracted to that value.
C27_GlobalSetupOncePerDistinctConfiguration ==
  suite.global_setup_fn =>
    \A i \in 1..Len(outcomes) :
      outcomes[i].extracted =>
        Cardinality({k \in 1..Len(GlobalSetups) :
                       GlobalSetups[k].config = outcomes[i].config.val}) = 1

\* C27 (amended): with a global setup registered, it is invoked exactly once for each
\* combination whose extraction succeeded, with that combination's configuration,
\* right after the extraction and before the case is registered or any sample of it
\* is set up; a configuration value that n combinations extract to is handed to it n
\* times. Without a registered global setup nothing of the kind is invoked.
C27_GlobalSetupOncePerCombination ==
  /\ [](IF suite = NoSuite \/ ~suite.global_setup_fn THEN GlobalSetups = <<>>
        ELSE /\ GlobalSetups =
                  [k \in 1..(Len(ExtractedUpTo(Len(outcomes)))
                             + (IF SetUpInProgress THEN 1 ELSE 0)) |->
                     HookCall("global_setup",
                              IF k <= Len(ExtractedUpTo(Len(outcomes)))
                              THEN ExtractedUpTo(Len(outcomes))[k]
                              ELSE concrete_config.val)]
             /\ calls.global_setup <= 1
             /\ calls.sample_setup > 0 => calls.global_setup = 1
             /\ Len(group.cases) <= Len(GlobalSetups))
  /\ [][Invoked("global_setup") =>
          /\ lastCall = [fn |-> "extractor", ok |-> TRUE]
          /\ calls.global_setup = 0 /\ calls.sample_setup = 0
          /\ concrete_config = Some(ExtractedConfig(suite, abstract_combo.val))
          /\ global_hooks' = Append(global_hooks,
                                    HookCall("global_setup", concrete_config.val))]_vars

\* the combinations (A, 1) and (A, 2) both extracted to the configuration read from
\* A alone, and the global setup was invoked with it for each of them
C27_Witness ==
  /\ suite.global_setup_fn
  /\ suite.extractor_fn = "first_cell"
  /\ Len(outcomes) = 2
  /\ outcomes[1].reached = "run" /\ outcomes[2].reached = "run"
  /\ outcomes[1].config = outcomes[2].config
  /\ GlobalSetups = <<HookCall("global_setup", [extracted_from |-> <<CellTag(<<"A">>)>>]),
                      HookCall("global_setup", [extracted_from |-> <<CellTag(<<"A">>)>>])>>

\* the number of per-sample calls that were started and have not completed
InFlight == Len(pending)

\* C28: in the async variant at most one callback invocation is in flight at any
\* time: sample setup, every logic iteration and sample teardown are each awaited to
\* completion before the next step of the sample starts, and two suspended calls, of
\* one combination or of two, are never pending together.  A call is started only when
\* none is pending; the pending call is the one the closure is positioned at; while it
\* is pending the only callback that can be invoked is its own completion, no case is
\* registered and no combination is begun or ended; the sync variant never has a
\* pending call.
C28_AtMostOneCallInFlight ==
  /\ [](/\ InFlight <= 1
        /\ (suite # NoSuite /\ suite.variant = "sync") => pending = <<>>
        /\ pending # <<>> =>
             /\ suite.variant = "async"
             /\ pc \in {"sampling", "logic", "sample_teardown"}
             /\ pending[1].fn = AwaitedAt(pc))
  /\ [][/\ (pending' # pending /\ pending' # <<>>) =>
             /\ pending = <<>>
             /\ calls' = calls /\ ~ExtractorInvoked
             /\ pc' = pc
        /\ \A f \in {"sample_setup", "logic", "sample_teardown"} :
             Invoked(f) => /\ pending' = <<>>
                           /\ pending = <<>> \/ pending[1].fn = f
        /\ pending # <<>> =>
             /\ ~ExtractorInvoked
             /\ \A f \in LifecycleCallbacks : Invoked(f) => f = pending[1].fn
             /\ group' = group
             /\ outcomes' = outcomes
             /\ pending' = <<>>]_vars

\* in the second combination of an async run, the second logic iteration of a sample
\* is suspended and is the only pending call
C28_Witness ==
  /\ suite.variant = "async"
  /\ Len(outcomes) = 1
  /\ pc = "logic"
  /\ sample.iters = 1
  /\ InFlight = 1
  /\ pending[1].fn = "logic"
  /\ pending[1].pair.some

\* the pair sample setup returned for the sample in progress
SetupPair == [combination |-> Current, sample |-> calls.sample_setup, step |-> 0]

\* the number of places that hold the pair: the closure's variables and the pending calls
Holders ==
  (IF sample.pair.some THEN 1 ELSE 0)
  + Cardinality({k \in DOMAIN pending : pending[k].pair.some})

\* the pair the sample has produced last: setup's before the first iteration
LatestPair ==
  IF sample.received = <<>> THEN SetupPair
  ELSE LogicReturns(sample.received[Len(sample.received)])

\* C29: the (context, state) pair is handed off by value through the sample: the first
\* logic iteration receives the pair sample setup returned, iteration i+1 receives the
\* pair iteration i returned, and sample teardown receives the pair the last iteration
\* returned (setup's pair when the hint is 0); every pair a step receives was made by
\* the setup of this sample of this combination, the pair has one holder while the
\* sample is in progress and none outside a sample.
C29_PairHandedOffByValue ==
  /\ Holders <= 1
  /\ \A i \in 1..(Len(sample.received) - 1) :
       sample.received[i + 1] = LogicReturns(sample.received[i])
  /\ sample.received # <<>> => sample.received[1] = SetupPair
  /\ sample.active =>
       /\ Holders = 1
       /\ HeldPair = Some(LatestPair)
       /\ Len(sample.received) = sample.iters
       /\ sample.torn = None
  /\ ~sample.active =>
       /\ Holders = 0
       /\ sample.reported.some =>
            /\ Len(sample.received) = sample.hint
            /\ sample.torn = Some(LatestPair)
       /\ ~sample.reported.some => sample.received = <<>> /\ sample.torn = None

\* the second sample of the second combination ran two iterations and its teardown
\* received the pair the second iteration returned
C29_Witness ==
  /\ Len(outcomes) = 1
  /\ calls.sample_setup = 2
  /\ sample.reported.some
  /\ sample.received = <<[combination |-> 2, sample |-> 2, step |-> 0],
                         [combination |-> 2, sample |-> 2, step |-> 1]>>
  /\ sample.torn = Some([combination |-> 2, sample |-> 2, step |-> 2])

\* a sample with hint 0 ran no iteration and its teardown received setup's pair
C29_WitnessNoIteration ==
  /\ sample.reported.some
  /\ sample.hint = 0
  /\ sample.received = <<>>
  /\ sample.torn = Some(SetupPair)

\* the axis list generates no combination: it is empty or contains an empty axis
NoCombination == axes = <<>> \/ \E i \in DOMAIN axes : axes[i] = <<>>

\* what 'Nothing to run' gives as the reason for the axis list
NothingToRunReason ==
  IF axes = <<>> THEN "no parameter axes defined"
  ELSE "no combinations generated (e.g., an axis was empty)"

\* run() has returned at its first step: no callback, no group, no case, and the one
\* line written is 'Nothing to run' with the reason for the axis list
ReturnedEarly ==
  /\ pc = "returned"
  /\ group = NoGroup
  /\ calls = NoCalls /\ lastCall = NoneCalled
  /\ abstract_combo = None /\ concrete_config = None
  /\ outcomes = <<>> /\ global_hooks = <<>> /\ pending = <<>>
  /\ Len(emitted) = 1
  /\ emitted[1].what = "nothing_to_run"
  /\ emitted[1].cause = NothingToRunReason

\* C30: run() on an axis list that generates no combination (the empty list, or a list
\* with an empty axis) returns early: no callback is invoked (extractor, global setup
\* and teardown, sample setup, logic and teardown, group configurator, throughput), no
\* group is created, no case is registered, and 'Nothing to run' is reported with the
\* reason 'no parameter axes defined' exactly when the list is empty and 'no
\* combinations generated' otherwise.
C30_NoCombinationReturnsEarly == (NoCombination /\ pc # "built") => ReturnedEarly

\* the part of C30 that the code satisfies: a list with an empty axis
C30_EmptyAxisReturnsEarly == (NoCombination /\ axes # <<>> /\ pc # "built") => ReturnedEarly

\* run() returned early on a list of two axes of which one is empty
C30_WitnessEmptyAxis == Len(axes) = 2 /\ NoCombination /\ ReturnedEarly

(***************************************************************************)
(* Properties of the construction of a suite (under SpecBuild).            *)
(***************************************************************************)
\* the fields of a suite other than its names
OtherFields == DOMAIN suite \ {"parameter_names"}

\* the label the run computes for the j-th generated combination is the unnamed one
UnnamedLabel(s, j) ==
  ParameterString(s, AbstractCombination(RowAt(axes, j)))
    = StripPrefixUnderscore(id_suffix(AbstractCombination(RowAt(axes, j))))

\* C31: the builder method parameter_names (both variants) stores the given names if
\* and only if their count equals the number of axes; on a mismatch it writes one
\* warning and sets the names to none, whatever names the constructor or an earlier
\* call had stored, so that every label of the run has the unnamed form; it changes
\* no other field of the suite and not the axes.
C31_ParameterNamesBuilder ==
  [][call'.op = "parameter_names" =>
       /\ (suite'.parameter_names = Some(names')) <=> (Len(names') = Len(axes))
       /\ Len(names') # Len(axes) =>
            /\ suite'.parameter_names = None
            /\ Len(emitted') = 1
            /\ emitted'[1].level = "WARN"
            /\ emitted'[1].variant = suite.variant
            /\ emitted'[1].suite = Some(suite.suite_base_name)
            /\ emitted'[1].counts = <<Len(names'), Len(axes)>>
            /\ \A j \in 1..Generated : UnnamedLabel(suite', j)
       /\ Len(names') = Len(axes) => emitted' = <<>>
       /\ DOMAIN suite' = DOMAIN suite
       /\ \A f \in OtherFields : suite'[f] = suite[f]
       /\ axes' = axes /\ pc' = pc]_vars

\* a sync suite with two axes and a global setup was handed three names by the
\* builder: it holds no names and the warning was written
C31_Witness ==
  /\ call.op = "parameter_names"
  /\ suite.variant = "sync"
  /\ Len(axes) = 2
  /\ Len(names) = 3
  /\ suite.parameter_names = None
  /\ suite.global_setup_fn
  /\ Len(emitted) = 1
  /\ emitted[1].what = "names_count_mismatch"

\* the builder was handed two names for two axes and the suite holds them
C31_WitnessStored ==
  /\ call.op = "parameter_names"
  /\ Len(axes) = 2
  /\ suite.parameter_names = Some(<<OtherNameAt(1), OtherNameAt(2)>>)
  /\ emitted = <<>>

(***************************************************************************)
(* Diagnostics, counters, labels, pairing and termination of run() (under  *)
(* SpecRun).                                                               *)
(***************************************************************************)
\* the lines written for a skip or a failure of a combination, and their causes
SkipOrFailureLines ==
  {"extraction_failed", "global_setup_failed", "global_teardown_failed",
   "compensating_teardown_failed"}
CauseOf(what) == IF what = "extraction_failed" THEN "extraction error" ELSE "hook error"

\* line l names the suite, the current combination and the cause
CarriesContext(l) ==
  /\ l.suite = Some(suite.suite_base_name)
  /\ abstract_combo.some
  /\ l.id = Some(id_suffix(abstract_combo.val))
  /\ l.cause = CauseOf(l.what)

\* line l shows the configuration extracted for the current combination, if any
CarriesConfiguration(l) == concrete_config.some => l.config = concrete_config

\* C32: every line written for a skip or failure of a combination (extraction
\* failure, global-setup failure, global-teardown failure after sampling, failure of
\* the compensating global teardown) carries the suite name, the combination's
\* identifier suffix and the cause, and, whenever a configuration was extracted, the
\* representation of that configuration.
C32_DiagnosticContext ==
  \A n \in 1..Len(emitted) :
    emitted[n].what \in SkipOrFailureLines =>
      CarriesContext(emitted[n]) /\ CarriesConfiguration(emitted[n])

\* the part of C32 the code satisfies: suite, combination and cause on every such
\* line, and the configuration on every one but the compensating teardown's
C32_ContextButCompensationConfiguration ==
  \A n \in 1..Len(emitted) :
    emitted[n].what \in SkipOrFailureLines =>
      /\ CarriesContext(emitted[n])
      /\ emitted[n].what # "compensating_teardown_failed" =>
           CarriesConfiguration(emitted[n])
      /\ emitted[n].what = "compensating_teardown_failed" => emitted[n].config = None

\* the ERROR lines of the step just taken
ErrorLines(em) == {n \in 1..Len(em) : em[n].level = "ERROR"}

\* each skipped combination produces exactly one ERROR line: a skip counter goes up
\* exactly in the steps that write one, and no step writes two
C32_OneErrorLinePerSkip ==
  [][/\ Cardinality(ErrorLines(emitted')) <= 1
     /\ (variants_skipped_extraction' + variants_skipped_global_setup'
           = variants_skipped_extraction + variants_skipped_global_setup + 1)
          <=> (ErrorLines(emitted') # {} /\ pc # "built")
     /\ (variants_skipped_extraction' + variants_skipped_global_setup'
           # variants_skipped_extraction + variants_skipped_global_setup)
          => ErrorLines(emitted') # {}]_vars

\* the compensating teardown of (A) failed after its global setup failed: the WARN
\* line names the suite and the combination and shows no configuration
C32_WitnessCompensation ==
  /\ Len(emitted) = 1
  /\ emitted[1].what = "compensating_teardown_failed"
  /\ concrete_config.some
  /\ emitted[1].config = None

\* the sum of the three counters of run()
CounterSum ==
  variants_run_count + variants_skipped_extraction + variants_skipped_global_setup

\* run() is between two combinations, or past the loop it entered
AtLoopHead == group.created /\ pc \in {"loop", "finish", "returned"}

\* each counter is the number of combinations processed so far with that outcome
CountersExact ==
  /\ variants_run_count = Len(Reached("run", Len(outcomes)))
  /\ variants_skipped_extraction = Len(Reached("skipped_extraction", Len(outcomes)))
  /\ variants_skipped_global_setup = Len(Reached("skipped_global_setup", Len(outcomes)))
  /\ CounterSum = Len(outcomes)

\* no counter decreases in a step of run()
CountersMonotone ==
  /\ variants_run_count' >= variants_run_count
  /\ variants_skipped_extraction' >= variants_skipped_extraction
  /\ variants_skipped_global_setup' >= variants_skipped_global_setup

\* C33: counter consistency: when run() returns normally after entering the loop, the
\* number reported as attempted (len() read before the loop) equals the number of
\* combinations the loop consumed and equals successfully run + skipped at extraction
\* + skipped at global setup, each counter being the exact number of combinations
\* with that outcome; during the loop the counters never decrease and their sum is
\* the number of combinations fully processed so far.
C33_CounterConsistency ==
  /\ [](/\ AtLoopHead => CountersExact
        /\ (group.created /\ pc = "returned") =>
             /\ total_variants = Len(outcomes)
             /\ total_variants = CounterSum)
  /\ [][pc # "built" => CountersMonotone]_vars

\* run() returned after four combinations, one skipped at extraction, one at global
\* setup and two run, and reported four as attempted
C33_WitnessFour ==
  /\ pc = "returned"
  /\ total_variants = 4
  /\ variants_run_count = 2
  /\ variants_skipped_extraction = 1
  /\ variants_skipped_global_setup = 1

\* run() returned from an empty axis list: one combination reported as attempted, the
\* one empty combination consumed and skipped at extraction
C33_WitnessEmptyAxisList ==
  /\ pc = "returned" /\ group.created
  /\ axes = <<>>
  /\ Len(outcomes) = 1
  /\ total_variants = 1
  /\ variants_skipped_extraction = 1
  /\ variants_run_count = 0

\* no axis holds one cell value twice
NoDuplicateCells(axs) ==
  \A i \in DOMAIN axs : \A j, k \in DOMAIN axs[i] : j # k => axs[i][j] # axs[i][k]

\* in no axis do two values have the same fragment, in the unnamed or the named form
NoLookalikes(axs) ==
  \A i \in DOMAIN axs : \A j, k \in DOMAIN axs[i] :
    j # k => /\ Fragment(axs[i][j]) # Fragment(axs[i][k])
             /\ NamedFragment(axs[i][j]) # NamedFragment(axs[i][k])

\* the labels of the cases registered so far are pairwise different
LabelsDiffer == \A m, n \in DOMAIN group.cases : m # n => group.cases[m].id # group.cases[n].id

\* C34: within one run over axes that each contain no duplicate cell value, two
\* different combinations never receive the same case label, in the unnamed or the
\* named form, for all cell variants and texts (String values that differ only in
\* non-alphanumeric characters and Tag texts that look like another variant's
\* fragment included).
C34_LabelsInjective == NoDuplicateCells(axes) => LabelsDiffer

\* the part of C34 the code satisfies: the labels differ when no two values of an axis
\* have the same fragment
C34_LabelsInjectiveWithoutLookalikes == NoLookalikes(axes) => LabelsDiffer

\* the cases of Tag Int1 and of Int 1 are both registered as Int1
C34_WitnessTagLikeInt ==
  /\ axes = <<<<CellTag(<<"I", "n", "t", "1">>), CellInt(1)>>>>
  /\ ~suite.parameter_names.some
  /\ Len(group.cases) = 2
  /\ group.cases[1].id = <<"I", "n", "t", "1">>
  /\ group.cases[2].id = <<"I", "n", "t", "1">>

\* the cases of String a-b and of String a.b are both registered as Backend-a_b
C34_WitnessSanitizedStrings ==
  /\ axes = <<<<CellString(<<"a", "-", "b">>), CellString(<<"a", ".", "b">>)>>>>
  /\ suite.parameter_names.some
  /\ Len(group.cases) = 2
  /\ group.cases[1].id = group.cases[2].id
  /\ group.cases[1].input # group.cases[2].input

\* four cases of two axes are registered under four labels
C34_WitnessFourLabels ==
  /\ Len(axes) = 2
  /\ Len(group.cases) = 4
  /\ LabelsDiffer

\* the global teardown invocations of the run so far, in order
GlobalTeardowns == SelectSeq(global_hooks, LAMBDA h : h.fn = "global_teardown")

\* one global teardown invocation for each combination processed so far whose
\* extraction succeeded, with its configuration, in order
TornDownOncePerExtracted ==
  GlobalTeardowns =
    [k \in 1..Len(ExtractedUpTo(Len(outcomes))) |->
       HookCall("global_teardown", ExtractedUpTo(Len(outcomes))[k])]

\* C35: global setup/teardown pairing: in a run that no sample-setup failure aborts, a
\* registered global teardown is invoked exactly once for each combination whose
\* extraction succeeded (after sampling, or as compensation after a failed global
\* setup, never both) and never for a combination whose extraction failed; with both
\* hooks registered the numbers of global teardown and of global setup invocations
\* are equal at the end of the run.  Without a registered teardown none is invoked.
C35_GlobalTeardownPairing ==
  /\ calls.global_teardown <= 1
  /\ IF suite = NoSuite \/ ~suite.global_teardown_fn
     THEN GlobalTeardowns = <<>>
     ELSE /\ TornDownOncePerExtracted
          /\ \A k \in DOMAIN outcomes :
               outcomes[k].extracted <=> outcomes[k].reached \in {"run", "skipped_global_setup"}
          /\ (pc = "returned" /\ suite.global_setup_fn) =>
               Len(GlobalTeardowns) = Len(GlobalSetups)

\* a run with both hooks returned after three combinations: one was run, one failed
\* its global setup and was compensated, one failed extraction; two teardowns and two
\* setups were invoked
C35_Witness ==
  /\ pc = "returned"
  /\ suite.global_setup_fn /\ suite.global_teardown_fn
  /\ Len(outcomes) >= 3
  /\ \E i, j, k \in DOMAIN outcomes :
       /\ outcomes[i].reached = "run"
       /\ outcomes[j].reached = "skipped_global_setup"
       /\ outcomes[k].reached = "skipped_extraction"
  /\ Len(GlobalTeardowns) = Len(ExtractedUpTo(Len(outcomes)))
  /\ Len(GlobalTeardowns) = Len(GlobalSetups)
  /\ Len(GlobalTeardowns) < Len(outcomes)

\* the terminal outcomes of a combination
TerminalOutcomes == {"run", "skipped_extraction", "skipped_global_setup"}

\* run() has returned and every generated combination has one terminal outcome, the
\* completed ones with their case registered
AllSettled ==
  /\ pc = "returned"
  /\ Len(outcomes) = (IF group.created THEN Generated ELSE 0)
  /\ \A k \in DOMAIN outcomes : outcomes[k].reached \in TerminalOutcomes
  /\ Len(group.cases) = Len(Reached("run", Len(outcomes)))
  /\ group.created => group.finished

\* a sample-setup failure has aborted the run
AbortedBySampleSetup == pc = "aborted" /\ lastCall = [fn |-> "sample_setup", ok |-> FALSE]

\* C36: termination and progress: for any finite axis list, when every callback
\* invocation returns and the harness asks for finitely many samples with finite
\* hints, run() eventually finishes, and by then every generated combination has
\* reached exactly one terminal outcome (completed with its case registered, skipped
\* at extraction, or skipped at global setup), unless a sample-setup failure aborts
\* the run; an outcome once reached is never changed and a returned or aborted run
\* takes no further step.
C36_Termination ==
  /\ <>(AllSettled \/ AbortedBySampleSetup)
  /\ [][/\ outcomes' # outcomes =>
             /\ Len(outcomes') = Len(outcomes) + 1
             /\ SubSeq(outcomes', 1, Len(outcomes)) = outcomes
        /\ pc \notin {"returned", "aborted"}]_vars

\* run() returned after two combinations, the first skipped at global setup, the
\* second run with its case registered
C36_Witness ==
  /\ AllSettled
  /\ Generated = 2
  /\ outcomes[1].reached = "skipped_global_setup"
  /\ outcomes[2].reached = "run"
  /\ Len(group.cases) = 1

====
